---- MODULE Spec2Model ----
(***************************************************************************)
(* Model of the Mudda plan execution engine:                               *)
(*   backend/workflows/mudda_workflow.py   MuddaWorkflow (run, approve_step, *)
(*                                         get_status)                     *)
(*   backend/activities/execution_tracking_activities.py                   *)
(*                                         update_execution_status (sink)  *)
(*   backend/temporal/client.py            TemporalClientManager           *)
(*   backend/services/ai_nodes/plan_validator_node.py   PlanValidator      *)
(*                                                                         *)
(* The workflow code between two awaits runs without interleaving; signals *)
(* and queries are served only while run() is parked at an await.  Each    *)
(* engine action below therefore runs from one await to the next.          *)
(***************************************************************************)
EXTENDS Integers, Sequences, FiniteSets, TLC

VARIABLES
    workflow_plan,      \* the plan handed to execute_workflow / run
    pc,                 \* where run() is parked
    idx,                \* 1-based position in steps of the step being processed
    attempt,            \* attempt number of the activity in flight (0: none)
    sink_req,           \* argument of the update_execution_status call in flight
    announced,          \* update_execution_status calls issued by run(), in order
    db_status,          \* WorkflowExecution.status
    db_data,            \* WorkflowExecution.execution_data
    execution_results,  \* self.execution_results
    ai_context,         \* self.ai_context
    approved_steps,     \* self.approved_steps
    ret,                \* value returned by run()
    query_result,       \* snapshot handed out by get_status since the engine last
                        \* moved or a signal arrived (NoValue when none)
    dispatched,         \* history: positions of the steps whose activity was
                        \* scheduled, in order
    handler_out,        \* history: position -> output returned by that step's handler
    waited,             \* history: positions at which wait_condition had to park
    signalled,          \* history: ids for which approve_step was delivered
    redelivered,        \* history: some id was signalled again after its first delivery
    \* dispatch_component_step / execute_with_retry (activities/dispatcher.py)
    component,          \* the Component row fetched from the database (NoValue: None)
    d_pc,               \* where dispatch_component_step is parked
    act_idx,            \* 1-based position in component_activities of act_config
    activity_inputs,    \* the input map built for the handler of act_config
    d_attempt,          \* attempt, the loop variable of execute_with_retry
    current_interval,   \* current_interval of execute_with_retry
    last_exception,     \* last_exception of execute_with_retry
    act_result,         \* what execute_with_retry returned (NoValue: None)
    act_results,        \* results of dispatch_component_step
    cumulative_inputs,  \* cumulative_inputs of dispatch_component_step
    d_ret,              \* what dispatch_component_step returned or raised
    calls,              \* history: the finished handler invocations of the current
                        \* execute_with_retry call, in order
    sleeps,             \* history: the asyncio.sleep calls of the current
                        \* execute_with_retry call, in order
    invoked,            \* history: positions of the activities whose handler was
                        \* invoked, in order
    \* PlanValidator (services/ai_nodes/plan_validator_node.py)
    v_plan,             \* workflow_json handed to PlanValidator
    selected_activities,\* ids of the selected activities handed to PlanValidator
    v_errors,           \* self.errors
    v_warnings,         \* self.warnings
    v_calls,            \* number of validate() calls made on this PlanValidator
    validation_result,  \* what validate() returned last (NoValue before the call)
    v_returned,         \* the dicts validate() has returned, in order, as their
                        \* holders read them now: their lists are self.errors
                        \* and self.warnings themselves
    \* MuddaWorkflow._resolve_templates (workflows/mudda_workflow.py)
    r_inputs,           \* inputs, the map handed to _resolve_templates
    r_execution_results,\* self.execution_results, in insertion order
    resolved,           \* what _resolve_templates returned last (NoValue: no call)
    r_calls,            \* number of _resolve_templates calls made
    \* the planning nodes (services/ai_nodes)
    g_state,            \* the GraphState the last node returned
    g_external,         \* history: number of RAG and LLM calls made by the nodes
    g_runs,             \* history: number of node invocations
    \* TemporalClientManager (temporal/client.py)
    c_client,           \* self._client (0: None, else the number of the Client)
    c_pc,               \* caller -> where its connect() call is
    c_got,              \* caller -> what its connect() call returned (0: nothing yet)
    c_connects          \* history: number of Client.connect calls performed

\* the state of the program
prog == << workflow_plan, pc, idx, attempt, sink_req, announced, db_status, db_data,
           execution_results, ai_context, approved_steps, ret >>

\* what the model records about the past
hist == << dispatched, handler_out, waited, signalled, redelivered >>

vars == << prog, hist, query_result >>

\* the state of dispatch_component_step and what the model records about it
dvars == << component, d_pc, act_idx, activity_inputs, d_attempt, current_interval,
            last_exception, act_result, act_results, cumulative_inputs, d_ret,
            calls, sleeps, invoked >>

\* the state of a PlanValidator call
vvars == << v_plan, selected_activities, v_errors, v_warnings, v_calls,
            validation_result, v_returned >>

\* the state around a _resolve_templates call
rvars == << r_inputs, r_execution_results, resolved, r_calls >>

\* the state handed from one planning node to the next
nvars == << g_state, g_external, g_runs >>

\* the state of a TemporalClientManager and of the connect() calls on it
cvars == << c_client, c_pc, c_got, c_connects >>

-----------------------------------------------------------------------------
(* Bounds of the model *)

MaxSteps == 2

\* largest maximum_attempts a stored retry_policy carries
MaxAttempts == 3

\* most entries of Component.activities
MaxActivities == 2

\* most steps of a plan handed to PlanValidator
MaxPlanSteps == 4

\* most steps of a plan handed to PlanValidator whose "next" lists vary freely
MaxGraphSteps == 3

\* most validate() calls made on one PlanValidator
MaxValidateCalls == 2

\* most entries of self.execution_results when _resolve_templates is called
MaxResults == 2

\* most _resolve_templates calls made with the same inputs and results
MaxResolveCalls == 2

\* most steps of a plan followed from the planner into run()
MaxRunSteps == 2

-----------------------------------------------------------------------------
(* Program constants *)

\* RetryPolicy(maximum_attempts=3, ...) shared by all activity calls
maximum_attempts == 3

\* The engine only compares step ids for equality, so the steps of a plan are
\* named after their place in the list.
StepIdSeq == << "step1", "step2", "step3" >>

StepIds == {StepIdSeq[i] : i \in 1..Len(StepIdSeq)}

\* A signal may carry any of these ids, whether or not the plan declares it.
SignalIds == StepIds

\* keys of the activity registry (two of them are enough to tell a handler that
\* returns ai_metadata from one that does not)
ACTIVITY_REGISTRY == {"send_notification", "pdf_service_activity"}

\* activity ids a plan may name: the registered ones and one nobody registered
ActivityIds == ACTIVITY_REGISTRY \cup {"unregistered_activity"}

\* values a handler may put in its output
OutVals == {"v1", "v2"}

Empty == << >>

\* None: no value yet
NoValue == [status |-> "none"]

\* a step without its "next" list
StepBodies == [step_id : StepIds, activity_id : ActivityIds, requires_approval : BOOLEAN]

\* "next" lists a plan may carry: each step names the step listed after it, or
\* the step listed before it (list order then contradicts the edges), or the
\* steps form a ring (a cycle)
NextShapes == {"chain", "reverse", "ring"}

NextOf(shape, i, n) ==
    IF shape = "chain" THEN (IF i < n THEN << StepIdSeq[i + 1] >> ELSE Empty)
    ELSE IF shape = "reverse" THEN (IF i > 1 THEN << StepIdSeq[i - 1] >> ELSE Empty)
    ELSE << StepIdSeq[(i % n) + 1] >>

WithNext(q, shape) ==
    [i \in 1..Len(q) |->
        [step_id |-> q[i].step_id,
         activity_id |-> q[i].activity_id,
         requires_approval |-> q[i].requires_approval,
         next |-> NextOf(shape, i, Len(q))]]

\* what a registered handler may return: a dict; the report generator's carries
\* an "ai_metadata" entry, the notifier's does not
HandlerOutputs(activity_id) ==
    IF activity_id = "pdf_service_activity"
    THEN {[status |-> "completed", file_path |-> v, ai_metadata |-> "meta"] : v \in OutVals}
    ELSE {[status |-> "completed", message_id |-> v] : v \in OutVals}

RECURSIVE SeqsUpTo(_, _)
SeqsUpTo(S, n) ==
    IF n = 0 THEN {Empty}
    ELSE LET shorter == SeqsUpTo(S, n - 1)
         IN  shorter \cup {Append(q, x) : q \in {r \in shorter : Len(r) = n - 1}, x \in S}

\* Plan documents of the data model: step_id is unique within a plan.
Plans ==
    {[steps |-> WithNext(q, shape)] :
        q \in {r \in SeqsUpTo(StepBodies, MaxSteps) :
                  \A i \in 1..Len(r) : r[i].step_id = StepIdSeq[i]},
        shape \in NextShapes}

-----------------------------------------------------------------------------
(* Python dict helpers *)

\* d[k] = v
DictPut(d, k, v) == [x \in (DOMAIN d) \cup {k} |-> IF x = k THEN v ELSE d[x]]

\* d.get(k, default)
DictGet(d, k, default) == IF k \in DOMAIN d THEN d[k] ELSE default

-----------------------------------------------------------------------------
(* PlanValidator (services/ai_nodes/plan_validator_node.py)                  *)
(*                                                                         *)
(* A step may leave out "next", "inputs" and "outputs"; step.get(...)      *)
(* supplies the defaults.  An input value is a record [type, text]: text   *)
(* is the string cut into lexemes, so that "{{step1.url}}" is                *)
(* << "{{", "step1", ".", "url", "}}" >>.                                   *)

\* step.get("next", [])
StepNext(step) == IF "next" \in DOMAIN step THEN step.next ELSE Empty

\* step.get("inputs", {})
StepInputs(step) == IF "inputs" \in DOMAIN step THEN step.inputs ELSE Empty

\* step.get("outputs", [])
StepOutputs(step) == IF "outputs" \in DOMAIN step THEN step.outputs ELSE Empty

\* adjacency = {step["step_id"]: step.get("next", []) for step in self.steps}
RECURSIVE Adjacency(_, _)
Adjacency(ss, n) ==
    IF n = 0 THEN Empty
    ELSE DictPut(Adjacency(ss, n - 1), ss[n].step_id, StepNext(ss[n]))

\* has_cycle(node, path) and its loop over the neighbours of node, from the
\* k-th on; st carries visited, rec_stack and self.errors, found the result
RECURSIVE has_cycle(_, _, _, _)
RECURSIVE has_cycle_from(_, _, _, _, _)
has_cycle(adjacency, node, path, st) ==
    has_cycle_from(adjacency, node, path, 1,
                   [st EXCEPT !.visited = @ \cup {node}, !.rec_stack = @ \cup {node}])

has_cycle_from(adjacency, node, path, k, st) ==
    LET neighbors == DictGet(adjacency, node, Empty)
    IN  IF k > Len(neighbors)
        THEN [st EXCEPT !.rec_stack = @ \ {node}, !.found = FALSE]
        ELSE LET neighbor == neighbors[k]
             IN  IF neighbor \notin st.visited
                 THEN LET r == has_cycle(adjacency, neighbor, Append(path, neighbor), st)
                      IN  IF r.found THEN r
                          ELSE has_cycle_from(adjacency, node, path, k + 1, r)
                 ELSE IF neighbor \in st.rec_stack
                      THEN [st EXCEPT
                              !.errors = Append(@, [kind |-> "cycle",
                                                    path |-> Append(path, neighbor)]),
                              !.found = TRUE]
                      ELSE has_cycle_from(adjacency, node, path, k + 1, st)

\* check_cycles_loop that starts the search from the first step only
check_cycles_loop_FirstOnly(ss, adjacency, k, st) ==
    IF k > 1 THEN st
    ELSE has_cycle(adjacency, ss[k].step_id, << ss[k].step_id >>, st)

\* "for step in self.steps: if step_id not in visited: has_cycle(...)"
RECURSIVE check_cycles_loop(_, _, _, _)
check_cycles_loop(ss, adjacency, k, st) ==
    IF k > Len(ss) THEN st
    ELSE IF ss[k].step_id \in st.visited
         THEN check_cycles_loop(ss, adjacency, k + 1, st)
         ELSE check_cycles_loop(ss, adjacency, k + 1,
                  has_cycle(adjacency, ss[k].step_id, << ss[k].step_id >>, st))

\* PlanValidator._check_cycles: the errors it appends
check_cycles(ss) ==
    IF Len(ss) = 0
    THEN << [kind |-> "no steps"] >>
    ELSE check_cycles_loop(ss, Adjacency(ss, Len(ss)), 1,
             [visited |-> {}, rec_stack |-> {}, errors |-> Empty, found |-> FALSE]).errors

\* index of the first lexeme of text equal to lex, 0 when there is none
FirstIndex(text, lex) ==
    IF \E i \in 1..Len(text) : text[i] = lex
    THEN CHOOSE i \in 1..Len(text) :
            /\ text[i] = lex
            /\ \A j \in 1..(i - 1) : text[j] # lex
    ELSE 0

\* str.strip(): the text without its leading and trailing blanks
RECURSIVE Strip(_)
Strip(text) ==
    IF Len(text) = 0 THEN text
    ELSE IF Head(text) = " " THEN Strip(Tail(text))
         ELSE IF text[Len(text)] = " " THEN Strip(SubSeq(text, 1, Len(text) - 1))
              ELSE text

\* input_value[find("{{") + 2 : find("}}")].strip(), for a value that holds both
VarName(text) ==
    LET start == FirstIndex(text, "{{") + 1
        end == FirstIndex(text, "}}") - 1
    IN  IF start > end THEN Empty ELSE Strip(SubSeq(text, start, end))

\* available_outputs: every "<step_id>.<output>"
AvailableOutputs(ss) ==
    UNION {{<< ss[i].step_id, ".", StepOutputs(ss[i])[j] >> :
              j \in 1..Len(StepOutputs(ss[i]))} : i \in 1..Len(ss)}

\* missing_inputs that only asks for the step of a reference to be declared
missing_inputs_StepOnly(ss) ==
    {<< i, name >> \in UNION {{<< i, n >> : n \in DOMAIN StepInputs(ss[i])} : i \in 1..Len(ss)} :
        LET value == StepInputs(ss[i])[name]
        IN  /\ value.type = "str"
            /\ FirstIndex(value.text, "{{") > 0
            /\ FirstIndex(value.text, "}}") > 0
            /\ FirstIndex(VarName(value.text), ".") > 0
            /\ VarName(value.text)[1] \notin {ss[j].step_id : j \in 1..Len(ss)}}

\* PlanValidator._check_missing_inputs: the (step, input) pairs it reports as
\* referencing an undefined output
missing_inputs(ss) ==
    {<< i, name >> \in UNION {{<< i, n >> : n \in DOMAIN StepInputs(ss[i])} : i \in 1..Len(ss)} :
        LET value == StepInputs(ss[i])[name]
        IN  /\ value.type = "str"
            /\ FirstIndex(value.text, "{{") > 0
            /\ FirstIndex(value.text, "}}") > 0
            /\ FirstIndex(VarName(value.text), ".") > 0
            /\ VarName(value.text) \notin AvailableOutputs(ss)}

\* step_ids = {step["step_id"] for step in self.steps}
StepIdSet(ss) == {ss[i].step_id : i \in 1..Len(ss)}

\* has_incoming: every id named by some step's next
HasIncoming(ss) ==
    UNION {{StepNext(ss[i])[j] : j \in 1..Len(StepNext(ss[i]))} : i \in 1..Len(ss)}

\* the first step of the list that carries the id ("for step ...: if ...: break")
FirstStepWithId(ss, id) ==
    ss[CHOOSE i \in 1..Len(ss) :
          /\ ss[i].step_id = id
          /\ \A j \in 1..(i - 1) : ss[j].step_id # id]

\* the breadth-first search of _check_orphan_nodes: the ids in reachable
RECURSIVE Reachable(_, _)
Reachable(ss, reached) ==
    LET more == UNION {IF id \in StepIdSet(ss)
                       THEN {StepNext(FirstStepWithId(ss, id))[j] :
                                j \in 1..Len(StepNext(FirstStepWithId(ss, id)))}
                       ELSE {} : id \in reached}
    IN  IF more \subseteq reached THEN reached ELSE Reachable(ss, reached \cup more)

\* check_orphan_nodes that searches from one entry point only
check_orphan_nodes_SingleEntry(ss) ==
    IF Len(ss) = 0 THEN Empty
    ELSE LET entry_points == StepIdSet(ss) \ HasIncoming(ss)
             first == {FirstStepWithId(ss, id).step_id : id \in entry_points}
             one == IF entry_points = {} THEN {}
                    ELSE {CHOOSE id \in entry_points :
                             \A i \in 1..Len(ss) :
                                ss[i].step_id \in entry_points =>
                                   \E j \in 1..i : ss[j].step_id = id}
             orphans == StepIdSet(ss) \ Reachable(ss, one)
         IN  IF entry_points = {} THEN << [kind |-> "no entry points"] >>
             ELSE IF orphans # {} THEN << [kind |-> "orphans", ids |-> orphans] >>
             ELSE Empty

\* PlanValidator._check_orphan_nodes: the errors it appends
check_orphan_nodes(ss) ==
    IF Len(ss) = 0 THEN Empty
    ELSE LET entry_points == StepIdSet(ss) \ HasIncoming(ss)
             orphans == StepIdSet(ss) \ Reachable(ss, entry_points)
         IN  IF entry_points = {} THEN << [kind |-> "no entry points"] >>
             ELSE IF orphans # {} THEN << [kind |-> "orphans", ids |-> orphans] >>
             ELSE Empty

\* check_not_selected that also rejects a selected activity no step uses
check_not_selected_OrUnused(ss, selected_activity_ids) ==
    LET used_activity_ids == {ss[i].activity_id : i \in 1..Len(ss)}
    IN  IF used_activity_ids # selected_activity_ids
        THEN << [kind |-> "not selected",
                 ids |-> used_activity_ids \ selected_activity_ids] >>
        ELSE Empty

\* check_not_selected that only reports when nothing the plan uses was selected
check_not_selected_AllOrNothing(ss, selected_activity_ids) ==
    LET used_activity_ids == {ss[i].activity_id : i \in 1..Len(ss)}
        not_selected == used_activity_ids \ selected_activity_ids
    IN  IF not_selected # {} /\ not_selected = used_activity_ids
        THEN << [kind |-> "not selected", ids |-> not_selected] >>
        ELSE Empty

\* PlanValidator._check_unused_activities: the error it appends
check_not_selected(ss, selected_activity_ids) ==
    LET used_activity_ids == {ss[i].activity_id : i \in 1..Len(ss)}
        not_selected == used_activity_ids \ selected_activity_ids
    IN  IF not_selected # {} THEN << [kind |-> "not selected", ids |-> not_selected] >>
        ELSE Empty

\* validate_errors that stops at the first check that reports
validate_errors_ShortCircuit(plan, selected_activity_ids) ==
    IF check_cycles(plan.steps) # Empty THEN check_cycles(plan.steps)
    ELSE IF missing_inputs(plan.steps) # {}
         THEN << [kind |-> "undefined output", at |-> missing_inputs(plan.steps)] >>
         ELSE IF check_orphan_nodes(plan.steps) # Empty
              THEN check_orphan_nodes(plan.steps)
              ELSE check_not_selected(plan.steps, selected_activity_ids)

\* PlanValidator.validate: self.errors after the checks, in the order they run
validate_errors(plan, selected_activity_ids) ==
    check_cycles(plan.steps)
    \o (IF missing_inputs(plan.steps) # {}
        THEN << [kind |-> "undefined output", at |-> missing_inputs(plan.steps)] >>
        ELSE Empty)
    \o check_orphan_nodes(plan.steps)
    \o check_not_selected(plan.steps, selected_activity_ids)

\* validate()["valid"]
validate_valid(plan, selected_activity_ids) ==
    Len(validate_errors(plan, selected_activity_ids)) = 0

\* The planner selects among the registered activities (ACTIVITY_METADATA), so
\* a plan no selection makes valid is one the full selection does not.
PlanValid(plan) == validate_valid(plan, ACTIVITY_REGISTRY)

\* the (step, input) pairs _check_missing_inputs warns about: a token without
\* "." that is none of the workflow inputs
input_warnings(ss) ==
    {<< i, name >> \in UNION {{<< i, n >> : n \in DOMAIN StepInputs(ss[i])} : i \in 1..Len(ss)} :
        LET value == StepInputs(ss[i])[name]
        IN  /\ value.type = "str"
            /\ FirstIndex(value.text, "{{") > 0
            /\ FirstIndex(value.text, "}}") > 0
            /\ FirstIndex(VarName(value.text), ".") = 0
            /\ VarName(value.text) \notin {<< "problem_statement" >>, << "issue_id" >>,
                                           << "citizen_id" >>}}

\* PlanValidator._check_unused_activities: the warning it appends
check_unused(ss, selected_activity_ids) ==
    LET used_activity_ids == {ss[i].activity_id : i \in 1..Len(ss)}
        unused == selected_activity_ids \ used_activity_ids
    IN  IF unused # {} THEN << [kind |-> "unused", ids |-> unused] >> ELSE Empty

\* "notif" in activity_id.lower() or "email" in ... or "sms" in ...
NotificationLike(activity_id) == activity_id \in {"send_notification"}

\* "approv" in activity_id.lower() or "human" in ...
ApprovalLike(activity_id) == activity_id \in {"human_feedback_activity"}

\* the sub-sequence of the steps that have no (or an empty) next
RECURSIVE terminal_nodes(_)
terminal_nodes(ss) ==
    IF Len(ss) = 0 THEN Empty
    ELSE (IF Len(StepNext(Head(ss))) = 0 THEN << Head(ss).step_id >> ELSE Empty)
         \o terminal_nodes(Tail(ss))

\* PlanValidator._check_sla_coverage: the warnings it appends
check_sla_coverage(plan) ==
    (IF "description" \notin DOMAIN plan THEN << [kind |-> "no description"] >> ELSE Empty)
    \o (IF Len(terminal_nodes(plan.steps)) = 0 THEN << [kind |-> "no terminal"] >>
        ELSE IF Len(terminal_nodes(plan.steps)) > 1
             THEN << [kind |-> "multiple terminal", ids |-> terminal_nodes(plan.steps)] >>
             ELSE Empty)
    \o (IF \E i \in 1..Len(plan.steps) : NotificationLike(plan.steps[i].activity_id)
        THEN Empty ELSE << [kind |-> "no notification"] >>)
    \o (IF Len(plan.steps) > 3
           /\ ~\E i \in 1..Len(plan.steps) : ApprovalLike(plan.steps[i].activity_id)
        THEN << [kind |-> "no approval"] >> ELSE Empty)

\* PlanValidator.validate: what the checks append to self.warnings, in order
validate_warnings(plan, selected_activity_ids) ==
    (IF input_warnings(plan.steps) # {}
     THEN << [kind |-> "runtime variable", at |-> input_warnings(plan.steps)] >>
     ELSE Empty)
    \o check_unused(plan.steps, selected_activity_ids)
    \o check_sla_coverage(plan)

-----------------------------------------------------------------------------
(* Plans handed to PlanValidator, and the validator as a state machine       *)

\* step ids by place in the list, and an id no step carries
PlanStepIds == << "step1", "step2", "step3", "step4", "step5" >>

GhostId == "ghost"

\* activity ids a plan handed to the validator may use
ValActivityIds == {"send_notification", "pdf_service_activity", "human_feedback_activity"}

\* what "next" may name in a plan of n steps: its steps and the ghost
NextTargets(n) == [i \in 1..(n + 1) |-> IF i <= n THEN PlanStepIds[i] ELSE GhostId]

\* "next" lists in list order: none, one target, or two steps of the plan
NextLists(n) ==
    {Empty}
    \cup {<< NextTargets(n)[a] >> : a \in 1..(n + 1)}
    \cup UNION {{<< NextTargets(n)[a], NextTargets(n)[b] >> : b \in (a + 1)..n} :
                   a \in 1..n}

\* id sequences of n steps: named by place, or one step carrying the id of an
\* earlier one
IdSeqs(n) ==
    {[i \in 1..n |-> PlanStepIds[i]]}
    \cup UNION {{[i \in 1..n |-> IF i = k THEN PlanStepIds[j] ELSE PlanStepIds[i]] :
                      k \in (j + 1)..n} : j \in 1..n}

\* "next" lists of at most one target
ShortNextLists(n) == {nx \in NextLists(n) : Len(nx) <= 1}

\* a plan of notification steps with the given ids and "next" lists
GraphPlan(ids, nx) ==
    [steps |-> [i \in DOMAIN ids |-> [step_id |-> ids[i],
                                      activity_id |-> "send_notification",
                                      next |-> nx[i]]],
     description |-> "d"]

\* the plan is one of n steps that varies the "next" lists, or one that varies
\* the ids over shorter "next" lists
GraphPlans(n) ==
    \/ \E nx \in [1..n -> NextLists(n)] :
           v_plan = GraphPlan([i \in 1..n |-> PlanStepIds[i]], nx)
    \/ \E ids \in IdSeqs(n), nx \in [1..n -> ShortNextLists(n)] :
           v_plan = GraphPlan(ids, nx)

\* input values: [type, text], text being the string cut into lexemes
InputValues ==
    {[type |-> "str", text |-> << "{{", "step1", ".", "url", "}}" >>],
     [type |-> "str", text |-> << "{{", "step2", ".", "url", "}}" >>],
     [type |-> "str", text |-> << "{{", GhostId, ".", "url", "}}" >>],
     [type |-> "str", text |-> << "{{", "step1", ".", "other", "}}" >>],
     [type |-> "str", text |-> << "{{", " ", "step1", ".", "url", " ", "}}" >>],
     [type |-> "str", text |-> << "see", " ", "{{", "step1", ".", "other", "}}" >>],
     [type |-> "str", text |-> << "{{", "issue_id", "}}" >>],
     [type |-> "str", text |-> << "{{", "url", "}}" >>],
     [type |-> "str", text |-> << "plain" >>],
     [type |-> "int"]}

\* a step with the fields the planner may leave out
DecoratedStep(id, activity_id, nx, outs, at, value) ==
    LET base == [step_id |-> id, activity_id |-> activity_id]
        s1 == IF nx = << "absent" >> THEN base
              ELSE [x \in DOMAIN base \cup {"next"} |->
                       IF x = "next" THEN nx ELSE base[x]]
        s2 == IF outs THEN [x \in DOMAIN s1 \cup {"outputs"} |->
                               IF x = "outputs" THEN << "url" >> ELSE s1[x]]
              ELSE s1
    IN  IF at THEN [x \in DOMAIN s2 \cup {"inputs"} |->
                       IF x = "inputs" THEN [arg |-> value] ELSE s2[x]]
        ELSE s2

\* shapes of the "next" lists of a plan handed to the validator: those of the
\* engine's plans, no "next" at all, and a first step on its own with the
\* other steps in a ring
ValShapes == NextShapes \cup {"absent", "island"}

\* the "next" list of the i-th of n steps
ShapedNext(shape, i, n) ==
    IF shape = "absent" THEN << "absent" >>
    ELSE IF shape = "island"
         THEN (IF i = 1 THEN Empty ELSE << PlanStepIds[IF i < n THEN i + 1 ELSE 2] >>)
    ELSE IF shape = "chain" THEN (IF i < n THEN << PlanStepIds[i + 1] >> ELSE Empty)
    ELSE IF shape = "reverse" THEN (IF i > 1 THEN << PlanStepIds[i - 1] >> ELSE Empty)
    ELSE << PlanStepIds[(i % n) + 1] >>

\* the same plan carrying a description
Described(plan) ==
    [x \in DOMAIN plan \cup {"description"} |->
        IF x = "description" THEN "d" ELSE plan[x]]

\* a plan of n steps with the given activities (mid for the steps between the
\* first and the last), declared outputs, "next" shape and one input value at
\* step at
DecoratedPlan(n, acts, mid, outs, shape, at, value) ==
    [steps |-> [i \in 1..n |->
                  DecoratedStep(PlanStepIds[i],
                                IF i \in DOMAIN acts THEN acts[i] ELSE mid,
                                ShapedNext(shape, i, n),
                                i \in DOMAIN outs /\ outs[i], i = at, value)]]

\* the plan with or without a description
Dressed(described, plan) == IF described THEN Described(plan) ELSE plan

\* the plan is one of n steps without inputs that varies the activities of the
\* first step, of the last and of those between them, or one of notification
\* steps after the first that varies the activity of the first step, the
\* outputs the first two steps declare and one input of the first or the last
\* step; both vary the "next" shape and the description
DecoratedPlans(n) ==
    \/ \E acts \in [{1, n} -> ValActivityIds], mid \in ValActivityIds,
          shape \in ValShapes, described \in BOOLEAN :
           v_plan = Dressed(described,
                            DecoratedPlan(n, acts, mid, Empty, shape, 0, NoValue))
    \/ \E acts \in [{1} -> ValActivityIds],
          outs \in [1..(IF n < 2 THEN n ELSE 2) -> BOOLEAN],
          shape \in ValShapes, at \in {1, n},
          value \in InputValues, described \in BOOLEAN :
           v_plan = Dressed(described,
                            DecoratedPlan(n, acts, "send_notification", outs, shape,
                                          at, value))

\* ids of the selected activities handed to the validator
SelectedSets == {{"send_notification"}, {"send_notification", "pdf_service_activity"},
                 ValActivityIds}

\* the dicts returned so far once validate() has returned result: "errors" and
\* "warnings" of every one of them are the lists the validator appends to
Returned(returned, result) ==
    [i \in 1..(Len(returned) + 1) |->
        IF i <= Len(returned)
        THEN [valid |-> returned[i].valid,
              errors |-> result.errors,
              warnings |-> result.warnings]
        ELSE result]

\* Validate that lets a warning make the plan invalid
Validate_WarningsInvalid ==
    /\ v_plan # NoValue
    /\ v_calls < MaxValidateCalls
    /\ v_errors' = v_errors \o validate_errors(v_plan, selected_activities)
    /\ v_warnings' = v_warnings \o validate_warnings(v_plan, selected_activities)
    /\ validation_result' = [valid |-> Len(v_errors') = 0 /\ Len(v_warnings') = 0,
                             errors |-> v_errors',
                             warnings |-> v_warnings']
    /\ v_returned' = Returned(v_returned, validation_result')
    /\ v_calls' = v_calls + 1
    /\ UNCHANGED << v_plan, selected_activities >>

\* PlanValidator.validate(): every check appends to self.errors and
\* self.warnings, and the result carries the two lists
Validate ==
    /\ v_plan # NoValue
    /\ v_calls < MaxValidateCalls
    /\ v_errors' = v_errors \o validate_errors(v_plan, selected_activities)
    /\ v_warnings' = v_warnings \o validate_warnings(v_plan, selected_activities)
    /\ validation_result' = [valid |-> Len(v_errors') = 0,
                             errors |-> v_errors',
                             warnings |-> v_warnings']
    /\ v_returned' = Returned(v_returned, validation_result')
    /\ v_calls' = v_calls + 1
    /\ UNCHANGED << v_plan, selected_activities >>

\* no PlanValidator has been built
ValidatorOff ==
    /\ v_plan = NoValue
    /\ selected_activities = {}
    /\ v_errors = Empty
    /\ v_warnings = Empty
    /\ v_calls = 0
    /\ validation_result = NoValue
    /\ v_returned = Empty

-----------------------------------------------------------------------------
(* MuddaWorkflow.run, from one await to the next *)

\* steps = workflow_plan.get("steps", [])
steps == workflow_plan.steps

\* self.approved_steps.get(sid, False)
Approved(sid) == DictGet(approved_steps, sid, FALSE)

\* await workflow.execute_activity(update_execution_status, args=[req], ...)
Announce(req) ==
    /\ sink_req' = req
    /\ announced' = Append(announced, req)
    /\ pc' = "sink"
    /\ attempt' = 1

\* the except block: record the failure through the sink
FailStep(i, error, results) ==
    /\ Announce([status |-> "failed",
                 result_data |-> [failed_step |-> steps[i].step_id,
                                  error |-> error,
                                  partial_results |-> results]])
    /\ idx' = i
    /\ dispatched' = dispatched

\* the try block up to the await of the step's activity
DispatchStep(i, results) ==
    IF steps[i].activity_id \notin ACTIVITY_REGISTRY
    THEN FailStep(i, "not found in registry", results)
    ELSE /\ pc' = "activity"
         /\ idx' = i
         /\ attempt' = 1
         /\ dispatched' = Append(dispatched, i)
         /\ UNCHANGED << sink_req, announced >>

\* ProcessStep without the approval gate
ProcessStep_NoGate(i, results) ==
    IF i > Len(steps)
    THEN /\ Announce([status |-> "completed", result_data |-> results])
         /\ idx' = i
         /\ UNCHANGED << dispatched, waited >>
    ELSE /\ DispatchStep(i, results)
         /\ waited' = waited

\* ProcessStep leaving the loop one step early
ProcessStep_OffByOne(i, results) ==
    IF i >= Len(steps)
    THEN /\ Announce([status |-> "completed", result_data |-> results])
         /\ idx' = i
         /\ UNCHANGED << dispatched, waited >>
    ELSE IF steps[i].requires_approval /\ ~Approved(steps[i].step_id)
         THEN /\ pc' = "waiting"
              /\ idx' = i
              /\ attempt' = 0
              /\ waited' = waited \cup {i}
              /\ UNCHANGED << sink_req, announced, dispatched >>
         ELSE /\ DispatchStep(i, results)
              /\ waited' = waited

\* one iteration of "for step in steps", entered with the results so far;
\* past the last step, mark the execution as completed
ProcessStep(i, results) ==
    IF i > Len(steps)
    THEN /\ Announce([status |-> "completed", result_data |-> results])
         /\ idx' = i
         /\ UNCHANGED << dispatched, waited >>
    ELSE IF steps[i].requires_approval /\ ~Approved(steps[i].step_id)
         THEN /\ pc' = "waiting"
              /\ idx' = i
              /\ attempt' = 0
              /\ waited' = waited \cup {i}
              /\ UNCHANGED << sink_req, announced, dispatched >>
         ELSE /\ DispatchStep(i, results)
              /\ waited' = waited

\* TemporalClientManager.execute_workflow: start_workflow(MuddaWorkflow.run, ...)
ExecuteWorkflow ==
    /\ pc = "created"
    /\ pc' = "start"
    /\ query_result' = NoValue
    /\ UNCHANGED << workflow_plan, idx, attempt, sink_req, announced, db_status,
                    db_data, execution_results, ai_context, approved_steps, ret, hist >>

\* MarkRunning that goes to the steps without telling the sink
MarkRunning_Skipped ==
    /\ pc = "start"
    /\ ProcessStep(1, execution_results)
    /\ query_result' = NoValue
    /\ UNCHANGED << workflow_plan, db_status, db_data, execution_results,
                    ai_context, approved_steps, ret, handler_out, signalled,
                    redelivered >>

\* run() up to its first await: mark the execution as running
MarkRunning ==
    /\ pc = "start"
    /\ Announce([status |-> "running"])
    /\ query_result' = NoValue
    /\ UNCHANGED << workflow_plan, idx, db_status, db_data, execution_results,
                    ai_context, approved_steps, ret, hist >>

\* the value run() returns after the sink has taken the terminal status req
ReturnValue(req) ==
    IF req.status = "completed"
    THEN [status |-> "completed",
          workflow_name |-> "Unknown",
          results |-> execution_results,
          ai_context |-> ai_context]
    ELSE [status |-> "failed",
          failed_step |-> req.result_data.failed_step,
          reason |-> req.result_data.error,
          partial_results |-> execution_results]

\* update_execution_status commits on the activity worker; run() is still
\* parked on the activity
SinkCommits ==
    /\ pc = "sink"
    /\ db_status' = sink_req.status
    /\ db_data' = IF "result_data" \in DOMAIN sink_req THEN sink_req.result_data
                  ELSE db_data
    /\ pc' = "sink_done"
    /\ query_result' = NoValue
    /\ UNCHANGED << workflow_plan, idx, attempt, sink_req, announced,
                    execution_results, ai_context, approved_steps, ret, hist >>

\* the result of update_execution_status reaches run(), which goes on to its
\* next await or returns
SinkReturns ==
    /\ pc = "sink_done"
    /\ IF sink_req.status = "running"
       THEN /\ ProcessStep(1, execution_results)
            /\ ret' = ret
       ELSE /\ pc' = "returned"
            /\ ret' = ReturnValue(sink_req)
            /\ attempt' = 0
            /\ UNCHANGED << idx, sink_req, announced, dispatched, waited >>
    /\ query_result' = NoValue
    /\ UNCHANGED << workflow_plan, db_status, db_data, execution_results, ai_context,
                    approved_steps, handler_out, signalled, redelivered >>

\* update_execution_status rolls back and raises; the retry policy runs it
\* again, and after the last attempt the error leaves run()
SinkRaises ==
    /\ pc = "sink"
    /\ IF attempt < maximum_attempts
       THEN /\ attempt' = attempt + 1
            /\ pc' = pc
       ELSE /\ attempt' = 0
            /\ pc' = "aborted"
    /\ query_result' = NoValue
    /\ UNCHANGED << workflow_plan, idx, sink_req, announced, db_status, db_data,
                    execution_results, ai_context, approved_steps, ret, hist >>

\* ApprovalReceived that uses the approval up and parks on the step again
ApprovalReceived_Reparks ==
    /\ pc = "waiting"
    /\ Approved(steps[idx].step_id)
    /\ approved_steps' = DictPut(approved_steps, steps[idx].step_id, FALSE)
    /\ query_result' = NoValue
    /\ UNCHANGED << workflow_plan, pc, idx, attempt, sink_req, announced, db_status,
                    db_data, execution_results, ai_context, ret, hist >>

\* workflow.wait_condition(...) is satisfied
ApprovalReceived ==
    /\ pc = "waiting"
    /\ Approved(steps[idx].step_id)
    /\ DispatchStep(idx, execution_results)
    /\ query_result' = NoValue
    /\ UNCHANGED << workflow_plan, db_status, db_data, execution_results, ai_context,
                    approved_steps, ret, handler_out, waited, signalled, redelivered >>

\* self.execution_results[step_id] = result
StoreResult(results, step_id, result) == DictPut(results, step_id, result)

\* ActivityReturns that goes on with the step named by "next"
ActivityReturns_FollowNext ==
    /\ pc = "activity"
    /\ \E out \in HandlerOutputs(steps[idx].activity_id) :
          /\ execution_results' = StoreResult(execution_results, steps[idx].step_id, out)
          /\ ai_context' = IF "ai_metadata" \in DOMAIN out
                           THEN DictPut(ai_context, steps[idx].step_id, out.ai_metadata)
                           ELSE ai_context
          /\ handler_out' = DictPut(handler_out, idx, out)
    /\ LET nxt == StepNext(steps[idx])
       IN  IF Len(nxt) = 0
           THEN ProcessStep(Len(steps) + 1, execution_results')
           ELSE ProcessStep(CHOOSE i \in 1..Len(steps) : steps[i].step_id = nxt[1],
                            execution_results')
    /\ query_result' = NoValue
    /\ UNCHANGED << workflow_plan, db_status, db_data, approved_steps, ret,
                    signalled, redelivered >>

\* the step's handler returns: store the result and go on with the next step
ActivityReturns ==
    /\ pc = "activity"
    /\ \E out \in HandlerOutputs(steps[idx].activity_id) :
          /\ execution_results' = StoreResult(execution_results, steps[idx].step_id, out)
          /\ ai_context' = IF "ai_metadata" \in DOMAIN out
                           THEN DictPut(ai_context, steps[idx].step_id, out.ai_metadata)
                           ELSE ai_context
          /\ handler_out' = DictPut(handler_out, idx, out)
    /\ ProcessStep(idx + 1, execution_results')
    /\ query_result' = NoValue
    /\ UNCHANGED << workflow_plan, db_status, db_data, approved_steps, ret,
                    signalled, redelivered >>

\* ActivityRaises that swallows the last error and goes on with the next step
ActivityRaises_Continue ==
    /\ pc = "activity"
    /\ IF attempt < maximum_attempts
       THEN /\ attempt' = attempt + 1
            /\ UNCHANGED << pc, idx, sink_req, announced, dispatched, waited >>
       ELSE ProcessStep(idx + 1, execution_results)
    /\ query_result' = NoValue
    /\ UNCHANGED << workflow_plan, db_status, db_data, execution_results, ai_context,
                    approved_steps, ret, handler_out, signalled, redelivered >>

\* the step's handler raises: the retry policy runs it again, and after the
\* last attempt the except block takes over
ActivityRaises ==
    /\ pc = "activity"
    /\ IF attempt < maximum_attempts
       THEN /\ attempt' = attempt + 1
            /\ UNCHANGED << pc, idx, sink_req, announced, dispatched >>
       ELSE FailStep(idx, "activity failed", execution_results)
    /\ query_result' = NoValue
    /\ UNCHANGED << workflow_plan, db_status, db_data, execution_results, ai_context,
                    approved_steps, ret, handler_out, waited, signalled, redelivered >>

-----------------------------------------------------------------------------
(* Signal and query *)

\* the workflow is open: Temporal delivers signals to it
Running == pc \in {"start", "sink", "sink_done", "waiting", "activity"}

\* approve_step that records the approval only while run() waits for that step
approve_step_IfWaiting(approved, step_id) ==
    IF pc = "waiting" /\ steps[idx].step_id = step_id
    THEN DictPut(approved, step_id, TRUE)
    ELSE approved

\* approve_step that replaces the map instead of adding to it
approve_step_Replace(approved, step_id) == [x \in {step_id} |-> TRUE]

\* approve_step that flips the entry
approve_step_Toggle(approved, step_id) ==
    DictPut(approved, step_id, ~DictGet(approved, step_id, FALSE))

\* self.approved_steps[step_id] = True
approve_step(approved, step_id) == DictPut(approved, step_id, TRUE)

\* TemporalClientManager.signal_approval -> MuddaWorkflow.approve_step
ApproveStep(s) ==
    /\ Running
    /\ approved_steps' = approve_step(approved_steps, s)
    /\ signalled' = signalled \cup {s}
    /\ redelivered' = (redelivered \/ s \in signalled)
    /\ query_result' = NoValue
    /\ UNCHANGED << workflow_plan, pc, idx, attempt, sink_req, announced, db_status,
                    db_data, execution_results, ai_context, ret, dispatched,
                    handler_out, waited >>

\* the dict get_status returns
get_status ==
    [execution_results |-> execution_results,
     ai_context |-> ai_context,
     approved_steps |-> approved_steps]

\* GetStatus that hands the approvals out and forgets them
GetStatus_Consuming ==
    /\ pc # "created"
    /\ query_result' = get_status
    /\ approved_steps' = Empty
    /\ UNCHANGED << workflow_plan, pc, idx, attempt, sink_req, announced, db_status,
                    db_data, execution_results, ai_context, ret, hist >>

\* TemporalClientManager.query_workflow_status -> MuddaWorkflow.get_status
GetStatus ==
    /\ pc # "created"
    /\ query_result' = get_status
    /\ UNCHANGED << prog, hist >>

-----------------------------------------------------------------------------
(* MuddaWorkflow._resolve_templates                                          *)
(*                                                                         *)
(* A value is a record with its type: a string carries its text cut into   *)
(* lexemes, as for the validator, and a dict its items.  No step id and no *)
(* key of a result holds a blank, a "." or a brace, so a text of several   *)
(* lexemes equals none of them.  self.execution_results is the sequence of *)
(* its (step_id, result) items in insertion order.                         *)

\* a string value
Str(text) == [type |-> "str", text |-> text]

\* a dict value
Dict(items) == [type |-> "dict", items |-> items]

\* step ids whose result may be in self.execution_results
ResultStepIds == << "step1", "step2", "step3" >>

\* what an activity may have returned: dicts with and without the keys the
\* inputs name, and a value that is no dict
StepResults ==
    {Dict([url |-> Str(<< "v1" >>)]),
     Dict([url |-> Str(<< "v2" >>), file |-> Str(<< "v1" >>)]),
     Dict([file |-> Str(<< "v2" >>)]),
     Dict([x \in {} |-> Empty]),
     Str(<< "done" >>)}

\* self.execution_results with at most n entries, in any insertion order
AccumulatedResults(n) ==
    {q \in SeqsUpTo([step_id : {ResultStepIds[i] : i \in 1..n}, result : StepResults], n) :
        \A i, j \in 1..Len(q) : q[i].step_id = q[j].step_id => i = j}

\* values of an input
ResolverValues ==
    {Str(<< "{{", "step1", ".", "url", "}}" >>),
     Str(<< "{{", "step2", ".", "url", "}}" >>),
     Str(<< "{{", GhostId, ".", "url", "}}" >>),
     Str(<< "{{", "step1", ".", "other", "}}" >>),
     Str(<< "{{", " ", "step1", ".", "url", " ", "}}" >>),
     Str(<< "{{", "url", "}}" >>),
     Str(<< "{{", "file", "}}" >>),
     Str(<< "{{", "issue_id", "}}" >>),
     Str(<< "see", " ", "{{", "step1", ".", "url", "}}" >>),
     Str(<< "{{", "step1", ".", "url", "}}", " ", "x" >>),
     Str(<< "{{", "step1", ".", "url", "}}", "{{", "step1", ".", "url", "}}" >>),
     Str(<< "{{", "url", "}}", "{{", "file", "}}" >>),
     Str(<< "plain" >>),
     [type |-> "int"]}

\* values of a second input
SecondValues ==
    {Str(<< "{{", "step1", ".", "url", "}}" >>), Str(<< "{{", "url", "}}" >>),
     [type |-> "int"]}

\* the inputs of a step: no entry, one, or two
ResolverInputs ==
    {[x \in {} |-> Empty]}
    \cup {[a |-> v] : v \in ResolverValues}
    \cup {[a |-> v, b |-> w] : v \in ResolverValues, w \in SecondValues}

\* isinstance(v, str) and v.startswith("{{") and v.endswith("}}")
IsTemplate(v) ==
    /\ v.type = "str"
    /\ Len(v.text) >= 2
    /\ v.text[1] = "{{"
    /\ v.text[Len(v.text)] = "}}"

\* path = v[2:-2].strip()
Path(v) == Strip(SubSeq(v.text, 2, Len(v.text) - 1))

\* self.execution_results.get(step_id, {}), step_id being a text
GetResult(results, step_id) ==
    IF \E i \in 1..Len(results) : << results[i].step_id >> = step_id
    THEN results[CHOOSE i \in 1..Len(results) : << results[i].step_id >> = step_id].result
    ELSE Dict([x \in {} |-> Empty])

\* key in result, key being a text
HasKey(result, key) == Len(key) = 1 /\ key[1] \in DOMAIN result.items

\* resolve_dotted that puts an empty string where the step has no such key
resolve_dotted_Blank(v, path, results) ==
    LET p == FirstIndex(path, ".")
        step_id == SubSeq(path, 1, p - 1)
        key == SubSeq(path, p + 1, Len(path))
        step_result == GetResult(results, step_id)
    IN  IF step_result.type = "dict"
        THEN (IF HasKey(step_result, key) THEN step_result.items[key[1]]
              ELSE Str(Empty))
        ELSE v

\* the branch of "." in path
resolve_dotted(v, path, results) ==
    LET p == FirstIndex(path, ".")
        step_id == SubSeq(path, 1, p - 1)
        key == SubSeq(path, p + 1, Len(path))
        step_result == GetResult(results, step_id)
    IN  IF step_result.type = "dict"
        THEN (IF HasKey(step_result, key) THEN step_result.items[key[1]] ELSE v)
        ELSE v

\* resolve_bare that takes the result stored last among those with the key
resolve_bare_Last(v, path, results) ==
    LET found == {i \in 1..Len(results) :
                     /\ results[i].result.type = "dict"
                     /\ HasKey(results[i].result, path)}
    IN  IF found = {} THEN v
        ELSE results[CHOOSE i \in found : \A j \in found : i >= j].result.items[path[1]]

\* the branch of a path without ".": the first result, in insertion order,
\* that is a dict and has the key
resolve_bare(v, path, results) ==
    LET found == {i \in 1..Len(results) :
                     /\ results[i].result.type = "dict"
                     /\ HasKey(results[i].result, path)}
    IN  IF found = {} THEN v
        ELSE results[CHOOSE i \in found : \A j \in found : i <= j].result.items[path[1]]

\* resolve_value that substitutes for a string holding a token anywhere
resolve_value_Interpolating(v, results) ==
    IF v.type = "str" /\ FirstIndex(v.text, "{{") > 0 /\ FirstIndex(v.text, "}}") > 0
    THEN (IF FirstIndex(VarName(v.text), ".") > 0
          THEN resolve_dotted(v, VarName(v.text), results)
          ELSE resolve_bare(v, VarName(v.text), results))
    ELSE v

\* resolved[k] for the value v
resolve_value(v, results) ==
    IF IsTemplate(v)
    THEN (IF FirstIndex(Path(v), ".") > 0
          THEN resolve_dotted(v, Path(v), results)
          ELSE resolve_bare(v, Path(v), results))
    ELSE v

\* MuddaWorkflow._resolve_templates
resolve_templates(inputs, results) ==
    [k \in DOMAIN inputs |-> resolve_value(inputs[k], results)]

\* ResolveTemplates that writes the resolved values into inputs
ResolveTemplates_InPlace ==
    /\ r_calls < MaxResolveCalls
    /\ resolved' = resolve_templates(r_inputs, r_execution_results)
    /\ r_inputs' = resolved'
    /\ r_calls' = r_calls + 1
    /\ UNCHANGED r_execution_results

\* a call of _resolve_templates: it builds and returns a new dict
ResolveTemplates ==
    /\ r_calls < MaxResolveCalls
    /\ resolved' = resolve_templates(r_inputs, r_execution_results)
    /\ r_calls' = r_calls + 1
    /\ UNCHANGED << r_inputs, r_execution_results >>

\* no _resolve_templates call is being made
ResolverOff ==
    /\ r_inputs = NoValue
    /\ r_execution_results = Empty
    /\ resolved = NoValue
    /\ r_calls = 0

-----------------------------------------------------------------------------
(* dispatch_component_step and execute_with_retry (activities/dispatcher.py)  *)
(*                                                                         *)
(* The coroutine runs without interleaving up to "await handler(inputs)"   *)
(* and "await asyncio.sleep(current_interval)"; each action below runs     *)
(* from one of these awaits to the next.                                   *)

\* keys of COMPONENT_REGISTRY
COMPONENT_REGISTRY == {"send_notification", "generate_llm_content"}

\* activity names a component may configure
ActivityNames == COMPONENT_REGISTRY \cup {"unregistered_activity"}

\* errors a handler may raise
Errors == {"e1", "e2"}

\* retry_policy values stored with a component's activity
RetryPolicies ==
    {[maximum_attempts |-> n, initial_interval |-> p[1], backoff_coefficient |-> p[2]] :
        n \in 0..MaxAttempts, p \in {<< 1, 2 >>, << 2, 3 >>}}

\* entries of Component.activities: with or without a retry_policy, and one
\* without an activity_name
ActConfigs ==
    {[activity_name |-> a] : a \in ActivityNames}
    \cup {[activity_name |-> a, retry_policy |-> c] :
             a \in COMPONENT_REGISTRY, c \in RetryPolicies}
    \cup {[metadata |-> "m"]}

\* Component rows with at most n activities
Components(n) == {[activities |-> q] : q \in SeqsUpTo(ActConfigs, n)}

\* input["inputs"] and input["step_id"] of the dispatched step
step_inputs == [issue_id |-> "issue-1"]

dispatch_step_id == "step1"

\* what a handler of the component registry may return
HandlerResults(activity_name) ==
    IF activity_name = "send_notification"
    THEN {[message_id |-> v] : v \in OutVals}
    ELSE {[content |-> v] : v \in OutVals}

\* d.update(e)
DictUpdate(d, e) ==
    [x \in (DOMAIN d) \cup (DOMAIN e) |-> IF x \in DOMAIN e THEN e[x] ELSE d[x]]

\* retry_policy = act_config.get("retry_policy", {})
RetryPolicyOf(act_config) ==
    IF "retry_policy" \in DOMAIN act_config THEN act_config.retry_policy ELSE Empty

\* max_attempts = retry_config.get("maximum_attempts", 3)
max_attempts(retry_config) == DictGet(retry_config, "maximum_attempts", 3)

\* initial_interval = retry_config.get("initial_interval", 1)
initial_interval(retry_config) == DictGet(retry_config, "initial_interval", 1)

\* backoff_coeff = retry_config.get("backoff_coefficient", 2.0)
backoff_coeff(retry_config) == DictGet(retry_config, "backoff_coefficient", 2)

\* component_activities = component.activities or []
component_activities == component.activities

\* act_config of the activity in flight
act_config == component_activities[act_idx]

\* "for act_config in component_activities" from the k-th entry on: entries
\* without a name or without a handler are passed over ("continue"); the
\* position of the first entry that has a handler, Len + 1 when there is none
RECURSIVE NextWithHandler(_, _)
NextWithHandler(acts, k) ==
    IF k > Len(acts) THEN k
    ELSE IF "activity_name" \notin DOMAIN acts[k]
         THEN NextWithHandler(acts, k + 1)
         ELSE IF acts[k].activity_name \notin COMPONENT_REGISTRY
              THEN NextWithHandler(acts, k + 1)
              ELSE k

\* the loop of dispatch_component_step entered at the k-th entry: up to the
\* return after the last entry, or into execute_with_retry up to its first
\* "await handler(inputs)" (with max_attempts < 1 its loop body never runs and
\* it returns None)
ComponentLoop(k, res, cum) ==
    LET at == NextWithHandler(component_activities, k)
    IN  /\ act_results' = res
        /\ cumulative_inputs' = cum
        /\ act_idx' = at
        /\ IF at > Len(component_activities)
           THEN /\ d_pc' = "returned"
                /\ d_ret' = [status |-> "completed",
                             step_id |-> dispatch_step_id,
                             results |-> res,
                             cumulative_outputs |-> cum]
                /\ d_attempt' = 0
                /\ act_result' = NoValue
                /\ UNCHANGED << activity_inputs, current_interval, last_exception,
                                calls, sleeps, invoked >>
           ELSE LET retry_config == RetryPolicyOf(component_activities[at])
                IN  /\ d_ret' = d_ret
                    /\ activity_inputs' = DictPut(cum, "step_id", dispatch_step_id)
                    /\ current_interval' = initial_interval(retry_config)
                    /\ last_exception' = NoValue
                    /\ act_result' = NoValue
                    /\ calls' = Empty
                    /\ sleeps' = Empty
                    /\ IF max_attempts(retry_config) < 1
                       THEN /\ d_pc' = "retry_returned"
                            /\ d_attempt' = 0
                            /\ invoked' = invoked
                       ELSE /\ d_pc' = "handler"
                            /\ d_attempt' = 1
                            /\ invoked' = Append(invoked, at)

\* dispatch_component_step(input) up to its first await of a handler
DispatchComponentStep ==
    /\ d_pc = "idle"
    /\ IF component = NoValue
       THEN /\ d_pc' = "raised"
            /\ d_ret' = [raised |-> "component not found"]
            /\ UNCHANGED << act_idx, activity_inputs, d_attempt, current_interval,
                            last_exception, act_result, act_results,
                            cumulative_inputs, calls, sleeps, invoked >>
       ELSE ComponentLoop(1, Empty, step_inputs)
    /\ component' = component

\* "return await handler(inputs)": the handler returns and execute_with_retry
\* returns its result
HandlerReturns ==
    /\ d_pc = "handler"
    /\ \E out \in HandlerResults(act_config.activity_name) :
          /\ act_result' = out
          /\ calls' = Append(calls, [attempt |-> d_attempt, ok |-> TRUE, value |-> out])
    /\ d_pc' = "retry_returned"
    /\ UNCHANGED << component, act_idx, activity_inputs, d_attempt, current_interval,
                    last_exception, act_results, cumulative_inputs, d_ret, sleeps,
                    invoked >>

\* HandlerRaises that allows one attempt more than max_attempts
HandlerRaises_OneMore(e) ==
    /\ d_pc = "handler"
    /\ last_exception' = e
    /\ calls' = Append(calls, [attempt |-> d_attempt, ok |-> FALSE, value |-> e])
    /\ IF d_attempt <= max_attempts(RetryPolicyOf(act_config))
       THEN /\ d_pc' = "sleeping"
            /\ sleeps' = Append(sleeps, current_interval)
            /\ UNCHANGED << act_results, d_ret >>
       ELSE /\ d_pc' = "raised"
            /\ act_results' = DictPut(act_results, act_config.activity_name,
                                      [success |-> FALSE, error |-> last_exception'])
            /\ d_ret' = [raised |-> last_exception']
            /\ sleeps' = sleeps
    /\ UNCHANGED << component, act_idx, activity_inputs, d_attempt, current_interval,
                    act_result, cumulative_inputs, invoked >>

\* HandlerRaises that raises the error of the first attempt
HandlerRaises_FirstError(e) ==
    /\ d_pc = "handler"
    /\ last_exception' = (IF Len(calls) = 0 THEN e ELSE last_exception)
    /\ calls' = Append(calls, [attempt |-> d_attempt, ok |-> FALSE, value |-> e])
    /\ IF d_attempt < max_attempts(RetryPolicyOf(act_config))
       THEN /\ d_pc' = "sleeping"
            /\ sleeps' = Append(sleeps, current_interval)
            /\ UNCHANGED << act_results, d_ret >>
       ELSE /\ d_pc' = "raised"
            /\ act_results' = DictPut(act_results, act_config.activity_name,
                                      [success |-> FALSE, error |-> last_exception'])
            /\ d_ret' = [raised |-> last_exception']
            /\ sleeps' = sleeps
    /\ UNCHANGED << component, act_idx, activity_inputs, d_attempt, current_interval,
                    act_result, cumulative_inputs, invoked >>

\* HandlerRaises that folds the failure record into cumulative_inputs
HandlerRaises_Merges(e) ==
    /\ d_pc = "handler"
    /\ last_exception' = e
    /\ calls' = Append(calls, [attempt |-> d_attempt, ok |-> FALSE, value |-> e])
    /\ IF d_attempt < max_attempts(RetryPolicyOf(act_config))
       THEN /\ d_pc' = "sleeping"
            /\ sleeps' = Append(sleeps, current_interval)
            /\ UNCHANGED << act_results, d_ret, cumulative_inputs >>
       ELSE /\ d_pc' = "raised"
            /\ act_results' = DictPut(act_results, act_config.activity_name,
                                      [success |-> FALSE, error |-> last_exception'])
            /\ cumulative_inputs' = DictUpdate(cumulative_inputs,
                                               [success |-> FALSE, error |-> e])
            /\ d_ret' = [raised |-> last_exception']
            /\ sleeps' = sleeps
    /\ UNCHANGED << component, act_idx, activity_inputs, d_attempt, current_interval,
                    act_result, invoked >>

\* the handler raises e: sleep and retry while attempt < max_attempts, else
\* raise last_exception, which the except block of dispatch_component_step
\* records and raises again
HandlerRaises(e) ==
    /\ d_pc = "handler"
    /\ last_exception' = e
    /\ calls' = Append(calls, [attempt |-> d_attempt, ok |-> FALSE, value |-> e])
    /\ IF d_attempt < max_attempts(RetryPolicyOf(act_config))
       THEN /\ d_pc' = "sleeping"
            /\ sleeps' = Append(sleeps, current_interval)
            /\ UNCHANGED << act_results, d_ret >>
       ELSE /\ d_pc' = "raised"
            /\ act_results' = DictPut(act_results, act_config.activity_name,
                                      [success |-> FALSE, error |-> last_exception'])
            /\ d_ret' = [raised |-> last_exception']
            /\ sleeps' = sleeps
    /\ UNCHANGED << component, act_idx, activity_inputs, d_attempt, current_interval,
                    act_result, cumulative_inputs, invoked >>

\* SleepElapses that keeps the interval as it is
SleepElapses_Constant ==
    /\ d_pc = "sleeping"
    /\ current_interval' = current_interval
    /\ d_attempt' = d_attempt + 1
    /\ d_pc' = "handler"
    /\ UNCHANGED << component, act_idx, activity_inputs, last_exception, act_result,
                    act_results, cumulative_inputs, d_ret, calls, sleeps, invoked >>

\* asyncio.sleep(current_interval) is over: current_interval *= backoff_coeff
\* and the next attempt invokes the handler
SleepElapses ==
    /\ d_pc = "sleeping"
    /\ current_interval' = current_interval * backoff_coeff(RetryPolicyOf(act_config))
    /\ d_attempt' = d_attempt + 1
    /\ d_pc' = "handler"
    /\ UNCHANGED << component, act_idx, activity_inputs, last_exception, act_result,
                    act_results, cumulative_inputs, d_ret, calls, sleeps, invoked >>

\* back in dispatch_component_step with act_result: record it, fold it into
\* cumulative_inputs when it is a dict, and go on with the next activity
StoreActivityResult ==
    /\ d_pc = "retry_returned"
    /\ ComponentLoop(act_idx + 1,
                     DictPut(act_results, act_config.activity_name, act_result),
                     IF act_result = NoValue THEN cumulative_inputs
                     ELSE DictUpdate(cumulative_inputs, act_result))
    /\ component' = component

\* nothing of the dispatcher is running
DispatcherOff ==
    /\ component = NoValue
    /\ d_pc = "off"
    /\ act_idx = 0
    /\ activity_inputs = Empty
    /\ d_attempt = 0
    /\ current_interval = 0
    /\ last_exception = NoValue
    /\ act_result = NoValue
    /\ act_results = Empty
    /\ cumulative_inputs = Empty
    /\ d_ret = NoValue
    /\ calls = Empty
    /\ sleeps = Empty
    /\ invoked = Empty

-----------------------------------------------------------------------------
(* The planning nodes (services/ai_nodes): policy_retrieval_node,            *)
(* plan_maker_node, plan_validator_node                                     *)
(*                                                                         *)
(* A node takes the GraphState and returns one.  The "error" string is a   *)
(* sequence of its pieces, "" being the empty sequence; a piece is a text  *)
(* or one entry of validation_result["errors"].  The nodes are composed    *)
(* outside this package, so any of them may be the next to run.            *)

\* most node invocations on one GraphState
MaxNodeRuns == 3

\* a piece of text of a message
Text(t) == [text |-> t]

\* "" and the error an earlier node has left
NoError == Empty

PreviousError == << Text("Previous error") >>

\* state.get("error") is truthy
HasError(state) == Len(state.error) > 0

\* str(e) of what the RAG client or the LLM service may raise: some exceptions
\* have an empty message
NodeExceptions == {"service unavailable", ""}

\* ids of the activities selected for the plan
NodeSelections == {{"send_notification"}, {"pdf_service_activity"}}

\* what llm.generate_structured may hand back as the plan: up to two
\* notification steps with any "next" lists
NodePlans ==
    UNION {{GraphPlan([i \in 1..n |-> PlanStepIds[i]], nx) : nx \in [1..n -> NextLists(n)]} :
              n \in 1..2}

\* state.get("workflow_json") as PlanValidator reads it: {} has no steps
PlanOf(workflow_json) ==
    IF workflow_json = Empty THEN [steps |-> Empty] ELSE workflow_json

\* "Workflow validation failed:\n" + "\n".join(f"  - {error}" for error in errors)
error_msg(errors) ==
    << Text("Workflow validation failed:") >> \o [i \in 1..Len(errors) |-> errors[i]]

\* error_msg that names the first error only
error_msg_FirstOnly(errors) ==
    << Text("Workflow validation failed:"), errors[1] >>

\* policy_retrieval_node(state)
PolicyRetrievalNode ==
    /\ g_runs < MaxNodeRuns
    /\ g_runs' = g_runs + 1
    /\ IF HasError(g_state)
       THEN UNCHANGED << g_state, g_external >>
       ELSE /\ g_external' = g_external + 1
            /\ \/ g_state' = [g_state EXCEPT
                                !.retrieved_policies = << "policy" >>,
                                !.current_step = "policy_retrieval_complete",
                                !.message = "Agent 1: Retrieved policies"]
               \/ \E e \in NodeExceptions :
                     g_state' = [g_state EXCEPT
                                   !.current_step = "policy_retrieval_start",
                                   !.message = "Agent 1: Retrieving",
                                   !.error = << Text("Policy retrieval failed: "), Text(e) >>]

\* plan_maker_node that goes on whatever the state carries
PlanMakerNode_NoGuard ==
    /\ g_runs < MaxNodeRuns
    /\ g_runs' = g_runs + 1
    /\ g_external' = g_external + 1
    /\ \/ \E plan \in NodePlans :
             g_state' = [g_state EXCEPT
                           !.workflow_json = plan,
                           !.current_step = "workflow_generation_complete",
                           !.message = "Agent 3: Workflow plan created"]
       \/ \E e \in NodeExceptions :
             g_state' = [g_state EXCEPT
                           !.current_step = "workflow_generation_start",
                           !.message = "Agent 3: Creating workflow plan",
                           !.error = IF e = "" THEN Empty ELSE << Text(e) >>]

\* plan_maker_node(state)
PlanMakerNode ==
    /\ g_runs < MaxNodeRuns
    /\ g_runs' = g_runs + 1
    /\ IF HasError(g_state)
       THEN UNCHANGED << g_state, g_external >>
       ELSE /\ g_external' = g_external + 1
            /\ \/ \E plan \in NodePlans :
                     g_state' = [g_state EXCEPT
                                   !.workflow_json = plan,
                                   !.current_step = "workflow_generation_complete",
                                   !.message = "Agent 3: Workflow plan created"]
               \/ \E e \in NodeExceptions :
                     g_state' = [g_state EXCEPT
                                   !.current_step = "workflow_generation_start",
                                   !.message = "Agent 3: Creating workflow plan",
                                   !.error = IF e = "" THEN Empty ELSE << Text(e) >>]

\* the try block of plan_validator_node: what it returns for the state
validated(state) ==
    IF state.workflow_json = NoValue
    THEN [state EXCEPT !.error = << Text("Validation error: "), Text("NoneType") >>,
                       !.current_step = "plan_validation_error",
                       !.message = "Agent 3: Validating workflow plan..."]
    ELSE LET plan == PlanOf(state.workflow_json)
             errors == validate_errors(plan, state.selected_activities)
             warnings == validate_warnings(plan, state.selected_activities)
             result == [valid |-> Len(errors) = 0, errors |-> errors, warnings |-> warnings]
         IN  IF ~result.valid
             THEN [state EXCEPT !.validation_result = result,
                                !.error = error_msg(errors),
                                !.current_step = "plan_validation_failed",
                                !.message = "Agent 3: Validation failed"]
             ELSE [state EXCEPT !.validation_result = result,
                                !.current_step = "plan_validation_complete",
                                !.message = IF Len(warnings) > 0
                                            THEN "Agent 3: Validation passed with warning(s)"
                                            ELSE "Agent 3: Validation passed - workflow is valid"]

\* plan_validator_node whose message names the first error only
PlanValidatorNode_FirstOnly ==
    /\ g_runs < MaxNodeRuns
    /\ g_runs' = g_runs + 1
    /\ g_external' = g_external
    /\ g_state' = IF HasError(g_state) THEN g_state
                  ELSE LET out == validated(g_state)
                       IN  IF out.current_step = "plan_validation_failed"
                           THEN [out EXCEPT !.error =
                                    error_msg_FirstOnly(out.validation_result.errors)]
                           ELSE out

\* plan_validator_node(state)
PlanValidatorNode ==
    /\ g_runs < MaxNodeRuns
    /\ g_runs' = g_runs + 1
    /\ g_external' = g_external
    /\ g_state' = IF HasError(g_state) THEN g_state
                  ELSE validated(g_state)

\* no planning is under way
NodesOff ==
    /\ g_state = NoValue
    /\ g_external = 0
    /\ g_runs = 0

-----------------------------------------------------------------------------
(* TemporalClientManager.connect and close (temporal/client.py)             *)
(*                                                                         *)
(* connect() runs without interleaving up to "await Client.connect(...)";   *)
(* other coroutines run while it is parked there.  Client objects are      *)
(* numbered in the order Client.connect returns them since the last close. *)

\* number of coroutines that call connect() on the manager
MaxCallers == 4

\* the coroutines that call connect() on the manager
Callers == 1..MaxCallers

\* connect() calls parked on Client.connect
Connecting == {c \in Callers : c_pc[c] = "connecting"}

\* connect() up to its await: return self._client if it is set, else call
\* Client.connect
ConnectBegins(c) ==
    /\ c_pc[c] = "idle"
    /\ IF c_client # 0
       THEN /\ c_got' = [c_got EXCEPT ![c] = c_client]
            /\ c_pc' = c_pc
       ELSE /\ c_pc' = [c_pc EXCEPT ![c] = "connecting"]
            /\ c_got' = c_got
    /\ UNCHANGED << c_client, c_connects >>

\* Client.connect returns a new Client: self._client = ...; return self._client
ConnectCompletes(c) ==
    /\ c_pc[c] = "connecting"
    /\ c_connects' = c_connects + 1
    /\ c_client' = c_connects'
    /\ c_got' = [c_got EXCEPT ![c] = c_client']
    /\ c_pc' = [c_pc EXCEPT ![c] = "idle"]

\* Client.connect raises: the error leaves connect()
ConnectFails(c) ==
    /\ c_pc[c] = "connecting"
    /\ c_pc' = [c_pc EXCEPT ![c] = "idle"]
    /\ UNCHANGED << c_client, c_got, c_connects >>

\* close(): self._client = None; what was connected and returned before it
\* belongs to the past
Close ==
    /\ c_client # 0
    /\ c_client' = 0
    /\ c_connects' = 0
    /\ c_got' = [c \in Callers |-> 0]
    /\ c_pc' = c_pc

\* no manager is in use
ClientOff ==
    /\ c_client = 0
    /\ c_pc = Empty
    /\ c_got = Empty
    /\ c_connects = 0

-----------------------------------------------------------------------------

\* WorkflowService.execute_workflow has created the execution record
\* (status "pending") and MuddaWorkflow.__init__ the empty state.
EngineInit(plans) ==
    /\ workflow_plan \in plans
    /\ pc = "created"
    /\ idx = 0
    /\ attempt = 0
    /\ sink_req = NoValue
    /\ announced = Empty
    /\ db_status = "pending"
    /\ db_data = Empty
    /\ execution_results = Empty
    /\ ai_context = Empty
    /\ approved_steps = Empty
    /\ ret = NoValue
    /\ query_result = NoValue
    /\ dispatched = Empty
    /\ handler_out = Empty
    /\ waited = {}
    /\ signalled = {}
    /\ redelivered = FALSE
    /\ DispatcherOff
    /\ ValidatorOff
    /\ ResolverOff
    /\ NodesOff
    /\ ClientOff

\* the execution of a plan of the data model
Init == EngineInit(Plans)

Next ==
    \/ ExecuteWorkflow /\ UNCHANGED << dvars, vvars, rvars, nvars, cvars >>
    \/ MarkRunning /\ UNCHANGED << dvars, vvars, rvars, nvars, cvars >>
    \/ SinkCommits /\ UNCHANGED << dvars, vvars, rvars, nvars, cvars >>
    \/ SinkReturns /\ UNCHANGED << dvars, vvars, rvars, nvars, cvars >>
    \/ SinkRaises /\ UNCHANGED << dvars, vvars, rvars, nvars, cvars >>
    \/ ApprovalReceived /\ UNCHANGED << dvars, vvars, rvars, nvars, cvars >>
    \/ ActivityReturns /\ UNCHANGED << dvars, vvars, rvars, nvars, cvars >>
    \/ ActivityRaises /\ UNCHANGED << dvars, vvars, rvars, nvars, cvars >>
    \/ \E s \in SignalIds : ApproveStep(s) /\ UNCHANGED << dvars, vvars, rvars, nvars, cvars >>
    \/ GetStatus /\ UNCHANGED << dvars, vvars, rvars, nvars, cvars >>

Spec == Init /\ [][Next]_vars

\* the steps taken without anyone outside acting: the client starts the
\* workflow, the worker runs run() up to its next await, an activity attempt
\* ends (it returns, raises, or is failed by its start_to_close_timeout), a
\* satisfied wait_condition wakes up.  Signals and queries are not among them.
EngineStep ==
    \/ ExecuteWorkflow
    \/ MarkRunning
    \/ SinkCommits
    \/ SinkReturns
    \/ SinkRaises
    \/ ApprovalReceived
    \/ ActivityReturns
    \/ ActivityRaises

\* Plans execute_workflow starts: run() is handed the dict as it is, and
\* nothing on the way checks it (PlanValidator accepts a shared step_id too),
\* so a step may carry the id of an earlier one
StartablePlans ==
    UNION {{[steps |-> WithNext([i \in 1..Len(q) |->
                                   [step_id |-> ids[i],
                                    activity_id |-> q[i].activity_id,
                                    requires_approval |-> q[i].requires_approval]],
                                shape)] :
               ids \in IdSeqs(Len(q)), shape \in NextShapes} :
           q \in {r \in SeqsUpTo(StepBodies, MaxSteps) :
                     \A i \in 1..Len(r) : r[i].step_id = StepIdSeq[i]}}

\* the execution of any plan that can be started
InitStarted == EngineInit(StartablePlans)

SpecStarted == InitStarted /\ [][Next]_vars

\* run() goes through the steps in list order and never reads "next": the
\* plans whose "next" lists follow the list
ChainPlans == {p \in Plans : p.steps = WithNext(p.steps, "chain")}

InitLive == EngineInit(ChainPlans)

\* the engine with its scheduling: a step that stays possible is taken
SpecLive == InitLive /\ [][Next]_vars /\ WF_vars(EngineStep)

\* no execution exists
EngineOff ==
    /\ workflow_plan = [steps |-> Empty]
    /\ pc = "off"
    /\ idx = 0
    /\ attempt = 0
    /\ sink_req = NoValue
    /\ announced = Empty
    /\ db_status = "pending"
    /\ db_data = Empty
    /\ execution_results = Empty
    /\ ai_context = Empty
    /\ approved_steps = Empty
    /\ ret = NoValue
    /\ query_result = NoValue
    /\ dispatched = Empty
    /\ handler_out = Empty
    /\ waited = {}
    /\ signalled = {}
    /\ redelivered = FALSE

\* a step has been routed to dispatch_component_step, which has fetched the
\* component (or found none)
InitDispatch ==
    /\ component \in Components(MaxActivities) \cup {NoValue}
    /\ d_pc = "idle"
    /\ act_idx = 0
    /\ activity_inputs = Empty
    /\ d_attempt = 0
    /\ current_interval = 0
    /\ last_exception = NoValue
    /\ act_result = NoValue
    /\ act_results = Empty
    /\ cumulative_inputs = Empty
    /\ d_ret = NoValue
    /\ calls = Empty
    /\ sleeps = Empty
    /\ invoked = Empty
    /\ EngineOff
    /\ ValidatorOff
    /\ ResolverOff
    /\ NodesOff
    /\ ClientOff

NextDispatch ==
    \/ DispatchComponentStep /\ UNCHANGED << vars, vvars, rvars, nvars, cvars >>
    \/ HandlerReturns /\ UNCHANGED << vars, vvars, rvars, nvars, cvars >>
    \/ \E e \in Errors : HandlerRaises(e) /\ UNCHANGED << vars, vvars, rvars, nvars, cvars >>
    \/ SleepElapses /\ UNCHANGED << vars, vvars, rvars, nvars, cvars >>
    \/ StoreActivityResult /\ UNCHANGED << vars, vvars, rvars, nvars, cvars >>

SpecDispatch == InitDispatch /\ [][NextDispatch]_<< vars, dvars, vvars, rvars, nvars, cvars >>

\* a PlanValidator has been built for a plan and the selected activities
InitValidator ==
    /\ \/ /\ \E n \in 0..MaxGraphSteps : GraphPlans(n)
          /\ selected_activities = {"send_notification"}
       \/ /\ \E n \in 1..MaxPlanSteps : DecoratedPlans(n)
          /\ selected_activities \in SelectedSets
    /\ v_errors = Empty
    /\ v_warnings = Empty
    /\ v_calls = 0
    /\ validation_result = NoValue
    /\ v_returned = Empty
    /\ EngineOff
    /\ DispatcherOff
    /\ ResolverOff
    /\ NodesOff
    /\ ClientOff

NextValidator == Validate /\ UNCHANGED << vars, dvars, rvars, nvars, cvars >>

SpecValidator == InitValidator /\ [][NextValidator]_<< vars, dvars, vvars, rvars, nvars, cvars >>

\* run() has reached "resolved_inputs = self._resolve_templates(inputs)" for a
\* step, with the results stored so far
InitResolve ==
    /\ r_inputs \in ResolverInputs
    /\ r_execution_results \in AccumulatedResults(MaxResults)
    /\ resolved = NoValue
    /\ r_calls = 0
    /\ EngineOff
    /\ DispatcherOff
    /\ ValidatorOff
    /\ NodesOff
    /\ ClientOff

NextResolve == ResolveTemplates /\ UNCHANGED << vars, dvars, vvars, nvars, cvars >>

SpecResolve == InitResolve /\ [][NextResolve]_<< vars, dvars, vvars, rvars, nvars, cvars >>

-----------------------------------------------------------------------------
(* A plan on its way from the planner to run(): plan_validator_node         *)
(* validates it once, then run() takes its steps in list order, resolves   *)
(* each step's inputs against the results stored so far and hands the      *)
(* resolved map to the step's handler, which returns the outputs the step  *)
(* declares.  r_calls counts the steps dispatched; resolved is the map the *)
(* handler in flight was called with.                                      *)

\* validator = PlanValidator(workflow_json, selected_activities);
\* validation_result = validator.validate()
PlannerValidates ==
    /\ v_calls = 0
    /\ Validate
    /\ UNCHANGED rvars

\* a result dict holding the outputs the step declares
DeclaredResult(step) ==
    Dict([k \in {StepOutputs(step)[j] : j \in 1..Len(StepOutputs(step))} |->
             Str(<< "v1" >>)])

\* self.execution_results[step_id] = result, in insertion order: a key already
\* present keeps its place
PutResult(results, step_id, result) ==
    IF \E i \in 1..Len(results) : results[i].step_id = step_id
    THEN [i \in 1..Len(results) |->
            IF results[i].step_id = step_id
            THEN [step_id |-> step_id, result |-> result]
            ELSE results[i]]
    ELSE Append(results, [step_id |-> step_id, result |-> result])

\* the loop of run() reaches the next step: resolved_inputs =
\* self._resolve_templates(inputs); execute_activity(handler, args=[resolved_inputs])
RunDispatches ==
    /\ v_calls >= 1
    /\ resolved = NoValue
    /\ r_calls < Len(v_plan.steps)
    /\ r_calls' = r_calls + 1
    /\ r_inputs' = StepInputs(v_plan.steps[r_calls'])
    /\ resolved' = resolve_templates(r_inputs', r_execution_results)
    /\ UNCHANGED << r_execution_results, vvars >>

\* the handler returns: self.execution_results[step_id] = result
HandlerCompletes ==
    /\ resolved # NoValue
    /\ r_execution_results' = PutResult(r_execution_results,
                                        v_plan.steps[r_calls].step_id,
                                        DeclaredResult(v_plan.steps[r_calls]))
    /\ r_inputs' = NoValue
    /\ resolved' = NoValue
    /\ UNCHANGED << r_calls, vvars >>

\* a plan of the planner and the activities selected for it, before validation
InitPlanRun ==
    /\ \E n \in 1..MaxRunSteps : DecoratedPlans(n)
    /\ selected_activities \in SelectedSets
    /\ v_errors = Empty
    /\ v_warnings = Empty
    /\ v_calls = 0
    /\ validation_result = NoValue
    /\ v_returned = Empty
    /\ EngineOff
    /\ DispatcherOff
    /\ ResolverOff
    /\ NodesOff
    /\ ClientOff

NextPlanRun ==
    \/ PlannerValidates /\ UNCHANGED << vars, dvars, nvars, cvars >>
    \/ RunDispatches /\ UNCHANGED << vars, dvars, nvars, cvars >>
    \/ HandlerCompletes /\ UNCHANGED << vars, dvars, nvars, cvars >>

SpecPlanRun == InitPlanRun /\ [][NextPlanRun]_<< vars, dvars, vvars, rvars, nvars, cvars >>

\* the GraphState as the first of the three nodes finds it: the activities
\* are selected, and the selector has left an error or none
InitNodes ==
    /\ g_state \in [problem_statement : {"Test"},
                    selected_activities : NodeSelections,
                    retrieved_policies : {Empty},
                    workflow_json : {Empty, NoValue},
                    validation_result : {Empty},
                    error : {NoError, PreviousError},
                    current_step : {""},
                    message : {""}]
    /\ g_external = 0
    /\ g_runs = 0
    /\ EngineOff
    /\ DispatcherOff
    /\ ValidatorOff
    /\ ResolverOff
    /\ ClientOff

NextNodes ==
    \/ PolicyRetrievalNode /\ UNCHANGED << vars, dvars, vvars, rvars, cvars >>
    \/ PlanMakerNode /\ UNCHANGED << vars, dvars, vvars, rvars, cvars >>
    \/ PlanValidatorNode /\ UNCHANGED << vars, dvars, vvars, rvars, cvars >>

SpecNodes == InitNodes /\ [][NextNodes]_<< vars, dvars, vvars, rvars, nvars, cvars >>

\* TemporalClientManager.__init__: self._client = None
InitClient ==
    /\ c_client = 0
    /\ c_pc = [c \in Callers |-> "idle"]
    /\ c_got = [c \in Callers |-> 0]
    /\ c_connects = 0
    /\ EngineOff
    /\ DispatcherOff
    /\ ValidatorOff
    /\ ResolverOff
    /\ NodesOff

NextClient ==
    \/ \E c \in Callers : ConnectBegins(c) /\ UNCHANGED << vars, dvars, vvars, rvars, nvars >>
    \/ \E c \in Callers : ConnectCompletes(c) /\ UNCHANGED << vars, dvars, vvars, rvars, nvars >>
    \/ \E c \in Callers : ConnectFails(c) /\ UNCHANGED << vars, dvars, vvars, rvars, nvars >>
    \/ Close /\ UNCHANGED << vars, dvars, vvars, rvars, nvars >>

SpecClient == InitClient /\ [][NextClient]_<< vars, dvars, vvars, rvars, nvars, cvars >>

-----------------------------------------------------------------------------
(* Properties of the execution engine *)

Range(q) == {q[i] : i \in 1..Len(q)}

Statuses == [i \in 1..Len(announced) |-> announced[i].status]

FailureAnnounced == Len(announced) = 2 /\ announced[2].status = "failed"

CompletionAnnounced == Len(announced) = 2 /\ announced[2].status = "completed"

\* the outputs of the first n steps, keyed by step id
OutputsOfFirst(n) ==
    [id \in {steps[j].step_id : j \in 1..n} |->
        handler_out[CHOOSE j \in 1..n : steps[j].step_id = id]]

\* C1: the sink is told "running" once, before any step is dispatched, then at
\* most one of "completed" and "failed", and nothing after that; the persisted
\* status moves pending -> running -> completed | failed only.
C1_StatusTransitions ==
    /\ Statuses \in {Empty, << "running" >>, << "running", "completed" >>,
                     << "running", "failed" >>}
    /\ pc \notin {"created", "start"} => Len(announced) >= 1
    /\ dispatched # Empty => (Len(announced) >= 1 /\ db_status # "pending")
    /\ db_status \in {"pending", "running", "completed", "failed"}
    /\ db_status = "pending" => Len(announced) <= 1
    /\ db_status = "running" => Len(announced) >= 1
    /\ db_status \in {"completed", "failed"} =>
          /\ Len(announced) = 2
          /\ announced[2].status = db_status
          /\ pc \in {"sink_done", "returned"}
    /\ pc = "returned" => (Len(announced) = 2 /\ db_status = ret.status)

C1_Witness ==
    /\ pc = "returned"
    /\ db_status = "failed"
    /\ Len(dispatched) >= 1

\* C2: while a step that requires approval is not approved, neither it nor any
\* step listed after it has been invoked or has an entry in execution_results,
\* as get_status shows them.
C2_ApprovalGating ==
    \A i \in 1..Len(steps) :
        (steps[i].requires_approval /\ ~Approved(steps[i].step_id)) =>
            \A j \in i..Len(steps) :
                /\ j \notin Range(dispatched)
                /\ j \notin DOMAIN handler_out
                /\ steps[j].step_id \notin DOMAIN get_status.execution_results
                /\ query_result # NoValue =>
                      steps[j].step_id \notin DOMAIN query_result.execution_results

C2_Witness ==
    /\ pc = "waiting"
    /\ idx = 2
    /\ query_result # NoValue
    /\ "step1" \in DOMAIN query_result.execution_results
    /\ "step2" \notin DOMAIN query_result.execution_results

\* C3: a step whose dispatch fails is the last one touched: no later step is
\* dispatched, the sink and the caller are told "failed" with that step as
\* failed_step, and the partial results are exactly the outputs of the steps
\* before it.
C3_HaltOnFailure ==
    /\ \A j \in Range(dispatched) :
          \/ j \in DOMAIN handler_out
          \/ j = idx /\ (pc = "activity" \/ FailureAnnounced)
    /\ \A j \in 1..Len(steps) :
          steps[j].activity_id \notin ACTIVITY_REGISTRY =>
              \A m \in Range(dispatched) : m < j
    /\ FailureAnnounced =>
          LET d == announced[2].result_data
          IN  /\ d.failed_step = steps[idx].step_id
              /\ idx \notin DOMAIN handler_out
              /\ \A m \in Range(dispatched) : m <= idx
              /\ d.partial_results = OutputsOfFirst(idx - 1)
              /\ d.failed_step \notin DOMAIN d.partial_results
              /\ pc = "returned" =>
                    /\ ret.status = "failed"
                    /\ ret.failed_step = d.failed_step
                    /\ ret.partial_results = d.partial_results
                    /\ db_status = "failed"
                    /\ db_data = d
    /\ ret.status = "failed" => FailureAnnounced

C3_Witness ==
    /\ pc = "returned"
    /\ ret.status = "failed"
    /\ Len(steps) = 2
    /\ idx = 1
    /\ dispatched = << 1 >>

\* C4: when every step has returned, "completed" is announced with one entry
\* per step holding that step's output, and run() returns "completed" with the
\* same map; "completed" is never announced or returned with a step missing.
C4_Completion ==
    /\ CompletionAnnounced =>
          /\ DOMAIN handler_out = 1..Len(steps)
          /\ announced[2].result_data = OutputsOfFirst(Len(steps))
    /\ (DOMAIN handler_out = 1..Len(steps) /\ Len(announced) >= 1
           /\ ~(Len(announced) = 1 /\ pc \in {"sink", "sink_done", "aborted"})) =>
          CompletionAnnounced
    /\ ret.status = "completed" =>
          /\ CompletionAnnounced
          /\ ret.results = OutputsOfFirst(Len(steps))
          /\ Cardinality(DOMAIN ret.results) = Len(steps)
          /\ db_status = "completed"
          /\ db_data = ret.results

C4_Witness ==
    /\ ret.status = "completed"
    /\ Len(steps) = 2
    /\ DOMAIN ret.results = {"step1", "step2"}

C6_InvalidPlanNeverRuns ==
    ~PlanValid(workflow_plan) => dispatched = Empty

\* C7: an approval delivered before run() reaches the gated step is kept, and
\* run() then dispatches the step without parking on wait_condition.
C7_SignalNotLost ==
    [][/\ \A s \in signalled : DictGet(approved_steps', s, FALSE)
       /\ (pc' = "waiting" /\ ~(pc = "waiting" /\ idx' = idx)) =>
             steps[idx'].step_id \notin signalled
       /\ (idx' # idx /\ idx' \in 1..Len(steps)
             /\ steps[idx'].requires_approval
             /\ steps[idx'].step_id \in signalled) =>
             /\ pc' # "waiting"
             /\ steps[idx'].activity_id \in ACTIVITY_REGISTRY =>
                   (pc' = "activity" /\ dispatched' = Append(dispatched, idx'))]_vars

C7_Witness ==
    /\ pc = "activity"
    /\ idx = 2
    /\ steps[2].requires_approval
    /\ 2 \notin waited

\* run() is parked on wait_condition for step s
Awaiting(s) == pc = "waiting" /\ steps[idx].step_id = s

\* C8 as stated: a signal for a step that is not being awaited changes none of
\* execution_results, ai_context and approved_steps.
C8_SignalNoEffect ==
    [][\A s \in signalled' \ signalled :
          ~Awaiting(s) => UNCHANGED << execution_results, ai_context, approved_steps >>]_vars

\* C8 amended: a signal for a step that is not being awaited raises no error,
\* leaves execution_results, ai_context and the position of run() alone, and
\* only records approved_steps[s] = true.
C8_SignalOnlyRecords ==
    [][\A s \in signalled' \ signalled :
          ~Awaiting(s) =>
             /\ approved_steps' = DictPut(approved_steps, s, TRUE)
             /\ UNCHANGED << workflow_plan, pc, idx, attempt, sink_req, announced,
                             db_status, db_data, execution_results, ai_context, ret,
                             dispatched, handler_out, waited >>]_vars

C8_Witness ==
    /\ pc = "activity"
    /\ execution_results # Empty
    /\ \E s \in signalled :
          /\ s \notin StepIdSet(steps)
          /\ Approved(s)

\* C9: delivering approve_step(s) again changes nothing, and two signals have
\* the same effect in either order.
C9_SignalIdempotent ==
    [][/\ (redelivered' /\ ~redelivered) =>
             UNCHANGED << prog, dispatched, handler_out, waited, signalled >>
       /\ \A s \in signalled' \ signalled :
             /\ approve_step(approved_steps', s) = approved_steps'
             /\ \A t \in SignalIds :
                   approve_step(approved_steps', t)
                      = approve_step(approve_step(approved_steps, t), s)]_vars

C9_Witness ==
    /\ redelivered
    /\ Cardinality(signalled) >= 2
    /\ ret.status = "completed"

\* C10: get_status hands out the current execution_results, ai_context and
\* approved_steps and changes nothing.
C10_QueryReadOnly ==
    [][query_result' # NoValue =>
          /\ UNCHANGED << prog, hist >>
          /\ query_result' = [execution_results |-> execution_results,
                              ai_context |-> ai_context,
                              approved_steps |-> approved_steps]]_vars

C10_Witness ==
    /\ query_result # NoValue
    /\ pc = "activity"
    /\ query_result.execution_results # Empty
    /\ query_result.ai_context # Empty
    /\ query_result.approved_steps # Empty

-----------------------------------------------------------------------------
(* Properties of dispatch_component_step and execute_with_retry *)

\* execute_with_retry is running, or has just returned or raised
InRetry == d_pc \in {"handler", "sleeping", "retry_returned"}
              \/ (d_pc = "raised" /\ component # NoValue)

\* max_attempts of the execute_with_retry call in progress
RetryLimit == max_attempts(RetryPolicyOf(act_config))

AllFailed(q) == \A i \in 1..Len(q) : ~q[i].ok

RECURSIVE Pow(_, _)
Pow(b, k) == IF k = 0 THEN 1 ELSE b * Pow(b, k - 1)

\* C11 as stated, for dispatch_component_step: the step is never reported
\* completed when one of its named activities has no handler in the registry.
C11_MissingHandlerIsFatal ==
    d_pc = "returned" =>
        \A k \in 1..Len(component_activities) :
            "activity_name" \in DOMAIN component_activities[k] =>
                component_activities[k].activity_name \in COMPONENT_REGISTRY

\* C12: with maximum_attempts = n >= 1 the handler is invoked attempt after
\* attempt, never after a success and never more than n times; a return comes
\* right after the first successful invocation and carries its result, and a
\* raise comes after exactly n failed invocations.
C12_RetrySequential ==
    (InRetry /\ RetryLimit >= 1) =>
        /\ \A i \in 1..Len(calls) : calls[i].attempt = i
        /\ \A i \in 1..(Len(calls) - 1) : ~calls[i].ok
        /\ Len(calls) <= RetryLimit
        /\ d_pc = "handler" =>
              (AllFailed(calls) /\ d_attempt = Len(calls) + 1 /\ d_attempt <= RetryLimit)
        /\ d_pc = "sleeping" =>
              (AllFailed(calls) /\ d_attempt = Len(calls) /\ d_attempt < RetryLimit)
        /\ d_pc = "retry_returned" =>
              /\ Len(calls) >= 1
              /\ calls[Len(calls)].ok
              /\ act_result = calls[Len(calls)].value
              /\ d_attempt = Len(calls)
        /\ d_pc = "raised" => (AllFailed(calls) /\ Len(calls) = RetryLimit)

C12_Witness ==
    /\ d_pc = "retry_returned"
    /\ RetryLimit = 3
    /\ Len(calls) = 2
    /\ ~calls[1].ok

\* C13: a wait happens only between a failed attempt and the next one, so m
\* invocations come with m - 1 waits and none follows the last failure; the
\* j-th wait lasts initial_interval * backoff_coefficient^(j-1), which is 1
\* then 2 for the default policy and a handler that always fails.
C13_BackoffGrowth ==
    (InRetry /\ RetryLimit >= 1) =>
        LET retry_config == RetryPolicyOf(act_config)
        IN  /\ Len(sleeps) = (IF d_pc \in {"retry_returned", "raised"}
                              THEN Len(calls) - 1 ELSE Len(calls))
            /\ d_pc = "sleeping" => ~calls[Len(calls)].ok
            /\ \A j \in 1..Len(sleeps) :
                  sleeps[j] = initial_interval(retry_config)
                                 * Pow(backoff_coeff(retry_config), j - 1)
            /\ d_pc = "handler" =>
                  current_interval = initial_interval(retry_config)
                                        * Pow(backoff_coeff(retry_config), d_attempt - 1)
            /\ (d_pc = "raised" /\ retry_config = Empty) => sleeps = << 1, 2 >>

C13_Witness ==
    /\ d_pc = "raised"
    /\ component # NoValue
    /\ "retry_policy" \notin DOMAIN act_config
    /\ Len(calls) = 3
    /\ sleeps = << 1, 2 >>

\* C14: whatever error the handler raises, the attempt is retried until
\* max_attempts is reached, and the error that then leaves execute_with_retry
\* and dispatch_component_step is the one the last invocation raised.
C14_LastErrorUnchanged ==
    /\ (d_pc = "sleeping" /\ RetryLimit >= 1) =>
          (~calls[Len(calls)].ok /\ calls[Len(calls)].value \in Errors)
    /\ (d_pc = "handler" /\ d_attempt > 1) => last_exception = calls[Len(calls)].value
    /\ (d_pc = "raised" /\ component # NoValue) =>
          /\ Len(calls) = RetryLimit
          /\ d_ret = [raised |-> calls[Len(calls)].value]
          /\ last_exception = calls[Len(calls)].value
          /\ act_results[act_config.activity_name]
                = [success |-> FALSE, error |-> calls[Len(calls)].value]

C14_Witness ==
    /\ d_pc = "raised"
    /\ component # NoValue
    /\ Len(calls) = 2
    /\ calls[1].value = "e1"
    /\ d_ret = [raised |-> "e2"]

-----------------------------------------------------------------------------
(* Properties of PlanValidator *)

v_steps == v_plan.steps

DistinctIds(ss) == \A i, j \in 1..Len(ss) : i # j => ss[i].step_id # ss[j].step_id

\* the ids that the steps carrying one of the ids in from name in their next
Successors(ss, from) ==
    UNION {{StepNext(ss[i])[j] : j \in 1..Len(StepNext(ss[i]))} :
              i \in {k \in 1..Len(ss) : ss[k].step_id \in from}}

\* the ids reached from the ids in from along one or more next edges
RECURSIVE ReachedFrom(_, _, _)
ReachedFrom(ss, from, seen) ==
    LET more == Successors(ss, from) \ seen
    IN  IF more = {} THEN seen ELSE ReachedFrom(ss, more, seen \cup more)

OnCycle(ss, id) == id \in ReachedFrom(ss, {id}, {})

HasCycle(ss) == \E i \in 1..Len(ss) : OnCycle(ss, ss[i].step_id)

ErrorsOfKind(kind) ==
    {validation_result.errors[k] :
        k \in {x \in 1..Len(validation_result.errors) :
                  validation_result.errors[x].kind = kind}}

WarningsOfKind(kind) ==
    {validation_result.warnings[k] :
        k \in {x \in 1..Len(validation_result.warnings) :
                  validation_result.warnings[x].kind = kind}}

\* the string inputs of the steps: where they are and their text
StringInputs(ss) ==
    {r \in UNION {{[at |-> << i, n >>, value |-> StepInputs(ss[i])[n]] :
                     n \in DOMAIN StepInputs(ss[i])} : i \in 1..Len(ss)} :
        r.value.type = "str"}

\* the tokens "s.k" the string inputs carry
DottedRefs(ss) ==
    UNION {{[at |-> r.at, step |-> r.value.text[p - 1], key |-> r.value.text[p + 1]] :
              p \in {q \in 2..(Len(r.value.text) - 1) : r.value.text[q] = "."}} :
              r \in StringInputs(ss)}

\* the inputs that carry a token without "."
BareRefs(ss) ==
    {r.at : r \in {x \in StringInputs(ss) :
                      /\ "{{" \in Range(x.value.text)
                      /\ "." \notin Range(x.value.text)}}

\* the reference names a declared output of a declared step
Resolved(ss, ref) ==
    \E i \in 1..Len(ss) :
        ss[i].step_id = ref.step /\ ref.key \in Range(StepOutputs(ss[i]))

Unresolved(ss) == {ref.at : ref \in {x \in DottedRefs(ss) : ~Resolved(ss, x)}}

\* C15: a plan whose next graph has a cycle (a self-loop is one) is not valid,
\* and its errors hold a cycle report whose path names a step on a cycle.
C15_CycleRejected ==
    (v_calls >= 1 /\ DistinctIds(v_steps) /\ HasCycle(v_steps)) =>
        /\ ~validation_result.valid
        /\ \E e \in ErrorsOfKind("cycle") :
              \E k \in 1..Len(e.path) : OnCycle(v_steps, e.path[k])

C15_Witness ==
    /\ v_calls = 1
    /\ Len(v_steps) = 3
    /\ DistinctIds(v_steps)
    /\ ~OnCycle(v_steps, "step1")
    /\ OnCycle(v_steps, "step3")
    /\ ErrorsOfKind("cycle") # {}

C17_NoDanglingNext ==
    (v_calls >= 1 /\ validation_result.valid) =>
        Successors(v_steps, StepIdSet(v_steps)) \subseteq StepIdSet(v_steps)

\* C18 as stated: in a plan the validator accepts, no two steps share an id.
C18_UniqueStepIds ==
    (v_calls >= 1 /\ validation_result.valid) => DistinctIds(v_steps)

EntryPoints(ss) == StepIdSet(ss) \ Successors(ss, StepIdSet(ss))

\* the steps no entry point reaches along next
Unreached(ss) ==
    StepIdSet(ss) \ (EntryPoints(ss) \cup ReachedFrom(ss, EntryPoints(ss), {}))

-----------------------------------------------------------------------------
(* Properties of PlanValidator: activities, warnings, repeated calls *)

\* the activity ids the steps use
UsedActivities(ss) == {ss[i].activity_id : i \in 1..Len(ss)}

\* C21: a step using an activity outside the selected set makes the plan
\* invalid, with one error listing exactly the activities used and not
\* selected; a selected activity no step uses gets a warning listing it, never
\* an error, and valid is what it would be without the unused activities.
C21_ActivityExistence ==
    v_calls >= 1 =>
        LET used == UsedActivities(v_steps)
            not_selected == used \ selected_activities
            unused == selected_activities \ used
        IN  /\ not_selected # {} =>
                  /\ ~validation_result.valid
                  /\ ErrorsOfKind("not selected") =
                        {[kind |-> "not selected", ids |-> not_selected]}
            /\ not_selected = {} => ErrorsOfKind("not selected") = {}
            /\ unused # {} =>
                  WarningsOfKind("unused") = {[kind |-> "unused", ids |-> unused]}
            /\ unused = {} => WarningsOfKind("unused") = {}
            /\ ErrorsOfKind("unused") = {}
            /\ validation_result.valid =
                  validate_valid(v_plan, selected_activities \cap used)

\* one step uses a selected activity, another one that was not selected, and a
\* selected activity is left unused
C21_Witness ==
    /\ v_calls = 1
    /\ UsedActivities(v_steps) \cap selected_activities # {}
    /\ UsedActivities(v_steps) \ selected_activities # {}
    /\ selected_activities \ UsedActivities(v_steps) # {}
    /\ ErrorsOfKind("not selected") # {}
    /\ WarningsOfKind("unused") # {}

\* the kinds of the warnings _check_sla_coverage appends
CoverageKinds == {"no description", "no terminal", "multiple terminal",
                  "no notification", "no approval"}

\* the positions of the steps with no (or an empty) next
TerminalSteps(ss) == {i \in 1..Len(ss) : StepNext(ss[i]) = Empty}

\* the plan with its description taken away, or given one
OtherDescription(plan) ==
    IF "description" \in DOMAIN plan THEN [steps |-> plan.steps] ELSE Described(plan)

\* C22: valid is true exactly when errors is empty; each coverage condition
\* (no description, no terminal step or several, no notification-like step,
\* more than 3 steps and no approval-like step) adds its warning and nothing to
\* errors, and the plan that differs in its description gets the same valid.
C22_WarningsNeverInvalidate ==
    v_calls >= 1 =>
        /\ validation_result.valid <=> (validation_result.errors = Empty)
        /\ \A k \in 1..Len(validation_result.errors) :
              validation_result.errors[k].kind \notin CoverageKinds
        /\ ("description" \notin DOMAIN v_plan) <=>
              (WarningsOfKind("no description") # {})
        /\ (TerminalSteps(v_steps) = {}) <=> (WarningsOfKind("no terminal") # {})
        /\ (Cardinality(TerminalSteps(v_steps)) > 1) <=>
              (WarningsOfKind("multiple terminal") # {})
        /\ (\A i \in 1..Len(v_steps) : ~NotificationLike(v_steps[i].activity_id)) <=>
              (WarningsOfKind("no notification") # {})
        /\ (Len(v_steps) > 3
              /\ \A i \in 1..Len(v_steps) : ~ApprovalLike(v_steps[i].activity_id)) <=>
              (WarningsOfKind("no approval") # {})
        /\ validation_result.valid =
              validate_valid(OtherDescription(v_plan), selected_activities)

\* a valid plan of four steps that gets every kind of coverage warning a plan
\* with terminal steps can get
C22_Witness ==
    /\ v_calls = 1
    /\ Len(v_steps) = 4
    /\ validation_result.valid
    /\ WarningsOfKind("no description") # {}
    /\ WarningsOfKind("multiple terminal") # {}
    /\ WarningsOfKind("no notification") # {}
    /\ WarningsOfKind("no approval") # {}

\* C23 as stated: a call of validate after the first returns what the call
\* before it returned, and alters none of the results returned before.
C23_Repeatable ==
    [][v_calls >= 1 =>
          /\ validation_result' = validation_result
          /\ \A i \in 1..Len(v_returned) : v_returned'[i] = v_returned[i]]_vvars

\* C24: every defect of the plan has its error in the errors list, whatever
\* the other defects: a cycle, a dotted reference to an undefined output, an
\* activity that was not selected, and steps no entry point reaches (or no
\* entry point at all).
C24_CollectAllErrors ==
    (v_calls >= 1 /\ Len(v_steps) >= 1 /\ DistinctIds(v_steps)) =>
        /\ HasCycle(v_steps) => ErrorsOfKind("cycle") # {}
        /\ Unresolved(v_steps) # {} => ErrorsOfKind("undefined output") # {}
        /\ UsedActivities(v_steps) \ selected_activities # {} =>
              ErrorsOfKind("not selected") # {}
        /\ (EntryPoints(v_steps) # {} /\ Unreached(v_steps) # {}) =>
              ErrorsOfKind("orphans") # {}
        /\ EntryPoints(v_steps) = {} => ErrorsOfKind("no entry points") # {}

\* a plan with the four defects, and the errors list of its one validation
\* holding the four errors
C24_Witness ==
    /\ v_calls = 1
    /\ DistinctIds(v_steps)
    /\ HasCycle(v_steps)
    /\ Unresolved(v_steps) # {}
    /\ UsedActivities(v_steps) \ selected_activities # {}
    /\ EntryPoints(v_steps) # {}
    /\ Unreached(v_steps) # {}
    /\ Len(validation_result.errors) = 4
    /\ {validation_result.errors[k].kind : k \in 1..4} =
          {"cycle", "undefined output", "orphans", "not selected"}

-----------------------------------------------------------------------------
(* Properties of _resolve_templates *)

\* the positions of the results that are maps holding the key
ResultsWithKey(key) ==
    {i \in 1..Len(r_execution_results) :
        /\ r_execution_results[i].result.type = "dict"
        /\ key \in DOMAIN r_execution_results[i].result.items}

\* the value is the string "{{s.k}}"
IsDottedToken(v) ==
    /\ v.type = "str"
    /\ Len(v.text) = 5
    /\ v.text[1] = "{{"
    /\ v.text[3] = "."
    /\ v.text[5] = "}}"
    /\ {v.text[2], v.text[4]} \cap {"{{", "}}", ".", " "} = {}

\* the value is the string "{{t}}"
IsBareToken(v) ==
    /\ v.type = "str"
    /\ Len(v.text) = 3
    /\ v.text[1] = "{{"
    /\ v.text[3] = "}}"
    /\ v.text[2] \notin {"{{", "}}", ".", " "}

\* C25: an input whose whole value is "{{s.k}}" resolves to
\* execution_results[s][k] when step s has a result map with key k and stays
\* the literal string otherwise; every input gets a resolved value.
C25_DottedToken ==
    r_calls >= 1 =>
        /\ DOMAIN resolved = DOMAIN r_inputs
        /\ \A name \in DOMAIN r_inputs :
              IsDottedToken(r_inputs[name]) =>
                 LET s == r_inputs[name].text[2]
                     k == r_inputs[name].text[4]
                     at == {i \in ResultsWithKey(k) : r_execution_results[i].step_id = s}
                 IN  IF at = {} THEN resolved[name] = r_inputs[name]
                     ELSE \A i \in at :
                             resolved[name] = r_execution_results[i].result.items[k]

\* one dotted token is substituted and another, naming a key its step did not
\* return, is left as it is
C25_Witness ==
    /\ r_calls = 1
    /\ DOMAIN r_inputs = {"a", "b"}
    /\ IsDottedToken(r_inputs.a)
    /\ IsDottedToken(r_inputs.b)
    /\ resolved.a = r_inputs.a
    /\ r_inputs.a.text[2] \in {r_execution_results[i].step_id :
                                  i \in 1..Len(r_execution_results)}
    /\ resolved.b = Str(<< "v1" >>)

\* C26: an input whose whole value is "{{t}}" resolves to the value of key t
\* in the first result map, in insertion order, that has the key, and stays
\* the literal string when no result map has it.
C26_BareToken ==
    r_calls >= 1 =>
        \A name \in DOMAIN r_inputs :
            IsBareToken(r_inputs[name]) =>
               LET t == r_inputs[name].text[2]
               IN  IF ResultsWithKey(t) = {} THEN resolved[name] = r_inputs[name]
                   ELSE \E i \in ResultsWithKey(t) :
                           /\ \A j \in ResultsWithKey(t) : i <= j
                           /\ resolved[name] = r_execution_results[i].result.items[t]

\* two result maps hold the key with different values, the one stored first
\* belongs to the step with the later id, and its value is taken
C26_Witness ==
    /\ r_calls = 1
    /\ "a" \in DOMAIN r_inputs
    /\ r_inputs.a = Str(<< "{{", "url", "}}" >>)
    /\ ResultsWithKey("url") = {1, 2}
    /\ r_execution_results[1].step_id = "step2"
    /\ r_execution_results[2].step_id = "step1"
    /\ r_execution_results[1].result.items.url # r_execution_results[2].result.items.url
    /\ resolved.a = r_execution_results[1].result.items.url

\* the value is a string that is one "{{...}}" from its first character to its
\* last
IsWholeToken(v) ==
    /\ v.type = "str"
    /\ Len(v.text) >= 2
    /\ v.text[1] = "{{"
    /\ v.text[Len(v.text)] = "}}"
    /\ \A i \in 2..(Len(v.text) - 1) : v.text[i] \notin {"{{", "}}"}

\* C27: the resolved map has the keys of the input map, and a value that is
\* not one whole-value "{{...}}" string (no string, a plain string, a string
\* with a token inside other text or with several tokens) is passed unchanged.
C27_PassThrough ==
    r_calls >= 1 =>
        /\ DOMAIN resolved = DOMAIN r_inputs
        /\ \A name \in DOMAIN r_inputs :
              ~IsWholeToken(r_inputs[name]) => resolved[name] = r_inputs[name]

\* a string with a resolvable token inside other text stays as it is, next to
\* an input that is substituted
C27_Witness ==
    /\ r_calls = 1
    /\ DOMAIN r_inputs = {"a", "b"}
    /\ r_inputs.a = Str(<< "see", " ", "{{", "step1", ".", "url", "}}" >>)
    /\ r_inputs.b = Str(<< "{{", "step1", ".", "url", "}}" >>)
    /\ resolved.a = r_inputs.a
    /\ resolved.b # r_inputs.b

\* C28: a call of _resolve_templates changes neither inputs nor
\* execution_results, and a call made again with them returns what the call
\* before returned.
C28_Idempotent ==
    [][/\ r_inputs' = r_inputs
       /\ r_execution_results' = r_execution_results
       /\ r_calls >= 1 => resolved' = resolved]_rvars

\* a second call has returned, with a substituted value
C28_Witness ==
    /\ r_calls = 2
    /\ \E name \in DOMAIN r_inputs : resolved[name] # r_inputs[name]

(***************************************************************************)
(* C29  Once the execution's status has reached 'completed' or 'failed',   *)
(* its ExecutionState (execution_results, ai_context, approved_steps)      *)
(* never changes again, whatever signals or queries arrive afterwards.     *)
(* The status is the one update_execution_status has committed.  The       *)
(* workflow stays open, and so accepts signals, from that commit until     *)
(* run() has returned: approve_step has no guard and still writes          *)
(* approved_steps in between.                                              *)
(***************************************************************************)
StatusTerminal == db_status \in {"completed", "failed"}

C29_ImmutableAfterTerminal ==
    [][StatusTerminal =>
         /\ execution_results' = execution_results
         /\ ai_context' = ai_context
         /\ approved_steps' = approved_steps]_vars

(***************************************************************************)
(* C30  An execution is never left stuck in 'running': when the plan-level *)
(* execution timeout elapses (the approval of a gated step never arrives,  *)
(* or an activity never returns) the engine announces 'failed' with a      *)
(* timeout-kind error for the step in flight.  So every execution whose    *)
(* status is 'running' reaches 'completed' or 'failed', also when no       *)
(* signal is ever sent.  run() has no plan-level timeout and               *)
(* wait_condition is called without one.                                   *)
(***************************************************************************)
C30_NeverStuckRunning == (db_status = "running") ~> StatusTerminal

-----------------------------------------------------------------------------
(* Properties of the execution engine: progress and outcomes *)

\* run() is parked on the approval wait of a step nobody has approved
WaitingUnapproved == pc = "waiting" /\ ~Approved(steps[idx].step_id)

\* the except block has announced the failure of the step at position i
FailedAt(i) ==
    \E k \in 1..Len(announced) :
        /\ announced[k].status = "failed"
        /\ announced[k].result_data.failed_step = steps[i].step_id

\* run() has announced 'completed' or 'failed'
TerminalAnnounced ==
    \E k \in 1..Len(announced) : announced[k].status \in {"completed", "failed"}

\* run() parked on the i-th step, and approve_step has been delivered for it
ApprovedWait(i) == i \in waited /\ Approved(steps[i].step_id)

(***************************************************************************)
(* C31  Progress after approval.  When run() is parked on gated step s and *)
(* approve_step(s) has been delivered, the engine goes on: s's result      *)
(* appears in execution_results, or the failure of s is announced when its *)
(* activity is not registered or fails on all its attempts.  A wait that   *)
(* was approved, a stored result and an announcement all stay once they    *)
(* are there, so "leads to" is stated as: from some point on every         *)
(* approved wait has its outcome.  And when no approval wait lasts for     *)
(* ever, a run whose 'running' status has been written announces           *)
(* 'completed' or 'failed'.                                                *)
(***************************************************************************)
C31_ProgressAfterApproval ==
    /\ <>[](\A i \in 1..Len(steps) :
               ApprovedWait(i) =>
                   (steps[i].step_id \in DOMAIN execution_results \/ FailedAt(i)))
    /\ ([]<>(~WaitingUnapproved)) => ((db_status = "running") ~> TerminalAnnounced)

C31_Witness ==
    /\ \E i \in waited :
          /\ steps[i].step_id \in signalled
          /\ i \in DOMAIN handler_out
          /\ steps[i].step_id \in DOMAIN execution_results
    /\ TerminalAnnounced

(***************************************************************************)
(* C32  At most one outcome per step: in a run of any plan that may be     *)
(* started, no two dispatches are for the same step_id, and an entry of    *)
(* execution_results, once written, is never overwritten or removed.       *)
(* run() stores every result under the step's id, whether or not an        *)
(* earlier step of the plan carried the same id.                           *)
(***************************************************************************)
C32_OneOutcomePerStep ==
    [][/\ \A k, l \in 1..Len(dispatched') :
             k # l => steps[dispatched'[k]].step_id # steps[dispatched'[l]].step_id
       /\ \A id \in DOMAIN execution_results :
             /\ id \in DOMAIN execution_results'
             /\ execution_results'[id] = execution_results[id]]_vars

-----------------------------------------------------------------------------
(* Properties of a plan followed from the planner into run() *)

(***************************************************************************)
(* C33  Handler calling contract: the map every handler invocation of the  *)
(* engine receives holds the step's template-resolved inputs and the       *)
(* injected context fields step_id and execution_id.  run() hands the      *)
(* handler resolved_inputs as _resolve_templates returned it.              *)
(***************************************************************************)
C33_HandlerInputs ==
    resolved # NoValue =>
        /\ \A k \in DOMAIN r_inputs :
              k \in DOMAIN resolved /\ resolved[k] = resolve_value(r_inputs[k], r_execution_results)
        /\ {"step_id", "execution_id"} \subseteq DOMAIN resolved

-----------------------------------------------------------------------------
(* Properties of the planning nodes and of TemporalClientManager *)

(***************************************************************************)
(* C34  Error pass-through: when the GraphState already carries a          *)
(* non-empty error, policy_retrieval_node, plan_maker_node and             *)
(* plan_validator_node each return the state unchanged (same error, no     *)
(* validation_result or workflow_json written) and make no external call,  *)
(* so the first error recorded is the one finally reported.                *)
(***************************************************************************)
C34_ErrorPassThrough ==
    [][HasError(g_state) => /\ g_state' = g_state
                            /\ g_external' = g_external]_nvars

C34_Witness ==
    /\ g_runs = MaxNodeRuns
    /\ g_state.error = PreviousError
    /\ g_state.workflow_json = Empty
    /\ g_state.validation_result = Empty
    /\ g_external = 0

\* values of current_step that plan_validator_node leaves after validating
ValidationSteps == {"plan_validation_failed", "plan_validation_complete",
                    "plan_validation_error"}

(***************************************************************************)
(* C35  plan_validator_node outcome: for a plan with valid=false it stores *)
(* the full validation_result (all errors and warnings), sets current_step *)
(* to 'plan_validation_failed' and sets error to a message that contains   *)
(* every entry of errors; for a plan with valid=true it leaves error empty *)
(* and sets current_step to 'plan_validation_complete'.                    *)
(***************************************************************************)
C35_ValidatorNodeOutcome ==
    [][(/\ ~HasError(g_state)
        /\ g_state.workflow_json # NoValue
        /\ g_state'.current_step \in ValidationSteps) =>
         LET plan == PlanOf(g_state.workflow_json)
             errors == validate_errors(plan, g_state.selected_activities)
             warnings == validate_warnings(plan, g_state.selected_activities)
         IN  /\ g_state'.validation_result =
                   [valid |-> Len(errors) = 0, errors |-> errors, warnings |-> warnings]
             /\ g_state'.workflow_json = g_state.workflow_json
             /\ IF Len(errors) > 0
                THEN /\ g_state'.current_step = "plan_validation_failed"
                     /\ \A i \in 1..Len(errors) :
                           \E k \in 1..Len(g_state'.error) : g_state'.error[k] = errors[i]
                ELSE /\ g_state'.current_step = "plan_validation_complete"
                     /\ g_state'.error = NoError]_nvars

C35_Witness ==
    /\ g_state.current_step = "plan_validation_failed"
    /\ Len(g_state.validation_result.errors) >= 2
    /\ Len(g_state.validation_result.warnings) >= 1
    /\ Len(g_state.error) = Len(g_state.validation_result.errors) + 1

-----------------------------------------------------------------------------
(* Properties of dispatch_component_step: halting, and success of the retry *)

\* the result recorded for an activity is the record of a failure
IsFailure(result) == "success" \in DOMAIN result

(***************************************************************************)
(* C36  dispatch_component_step runs a component's activities one after    *)
(* the other in list order and halts on the first one that fails after its *)
(* retries: the error propagates to the caller, no later activity of the   *)
(* component is invoked, no 'completed' result is returned, and the failed *)
(* activity's output is not merged into the cumulative inputs.             *)
(***************************************************************************)
C36_HaltOnActivityFailure ==
    /\ \A i, j \in 1..Len(invoked) : i < j => invoked[i] < invoked[j]
    /\ (d_pc = "raised" /\ component # NoValue) =>
          /\ invoked[Len(invoked)] = act_idx
          /\ DOMAIN d_ret = {"raised"}
          /\ d_ret.raised \in Errors
          /\ cumulative_inputs =
                [k \in DOMAIN activity_inputs \ {"step_id"} |-> activity_inputs[k]]
          /\ {"success", "error"} \cap DOMAIN cumulative_inputs = {}
    /\ d_pc = "returned" =>
          /\ d_ret.status = "completed"
          /\ \A name \in DOMAIN act_results : ~IsFailure(act_results[name])

C36_Witness ==
    /\ d_pc = "raised"
    /\ component # NoValue
    /\ Len(component_activities) = 2
    /\ invoked = << 1 >>
    /\ NextWithHandler(component_activities, 2) = 2
    /\ Len(calls) >= 2

-----------------------------------------------------------------------------
(* Properties of TemporalClientManager                                      *)

(***************************************************************************)
(* C37  connect() is idempotent and the connection a singleton: for any    *)
(* number of connect() calls on one manager between closes, calls of       *)
(* concurrently running coroutines included, Client.connect is performed   *)
(* at most once and every caller gets the same client.                     *)
(***************************************************************************)
C37_ConnectOnce ==
    /\ c_connects <= 1
    /\ \A a, b \in Callers : (c_got[a] # 0 /\ c_got[b] # 0) => c_got[a] = c_got[b]

-----------------------------------------------------------------------------
(* Properties of an accepted plan run in list order                         *)

\* the value is a reference "{{step.key}}" as _resolve_templates reads it
DottedReference(v) == IsTemplate(v) /\ FirstIndex(Path(v), ".") > 0

\* the step a dotted reference names has stored its result
ReferencedCompleted(v, results) ==
    LET path == Path(v)
    IN  \E i \in 1..Len(results) :
           << results[i].step_id >> = SubSeq(path, 1, FirstIndex(path, ".") - 1)

(***************************************************************************)
(* C38  In a plan the validator accepted, run in list order with every     *)
(* step returning its declared outputs, every dotted reference step.key in *)
(* the inputs of the step being dispatched names a step that has already   *)
(* completed, and is substituted: the handler is not given the literal     *)
(* "{{...}}" text.                                                         *)
(***************************************************************************)
C38_ReferencesSubstituted ==
    (resolved # NoValue /\ validation_result.valid) =>
        \A k \in DOMAIN r_inputs :
            DottedReference(r_inputs[k]) =>
                /\ ReferencedCompleted(r_inputs[k], r_execution_results)
                /\ resolved[k] # r_inputs[k]

(***************************************************************************)
(* C39  The validator reports no spurious cycle: every "Cycle detected"    *)
(* error of _check_cycles names a path whose last step lies on a cycle of  *)
(* the next graph, the errors reported after a first cycle was found in    *)
(* the same validation included.                                           *)
(***************************************************************************)
C39_NoSpuriousCycle ==
    (v_calls >= 1 /\ DistinctIds(v_steps)) =>
        \A e \in ErrorsOfKind("cycle") : OnCycle(v_steps, e.path[Len(e.path)])

(***************************************************************************)
(* C40  Whatever the retry_config (one with maximum_attempts below 1       *)
(* included), execute_with_retry returns normally only if some invocation  *)
(* of the handler returned the value it returns: it never reports success  *)
(* without a successful run of the handler.                                *)
(***************************************************************************)
C40_ReturnsHandlerValue ==
    d_pc = "retry_returned" =>
        \E k \in 1..Len(calls) : calls[k].ok /\ calls[k].value = act_result

====
